---------------------------- MODULE Spec2Model ----------------------------
(***************************************************************************)
(* seq-actors: the event journal (journal.rs), the runtime's persistence   *)
(* and recovery operations (runtime.rs) and the value codec they store     *)
(* (serialize.rs).  Files are byte sequences; events and snapshots go      *)
(* through the bincode encoding on every write and read.                   *)
(***************************************************************************)
EXTENDS Integers, Sequences, FiniteSets, TLC

(***************************************************************************)
(* Bounds of the model.                                                    *)
(***************************************************************************)
\* Event and snapshot sequence numbers given to the operations: 0..MaxSeq.
MaxSeq == 2
\* Total number of persist_event / save_snapshot calls in one behaviour.
MaxWrites == 3

(***************************************************************************)
(* Fixed-width little-endian integers (bincode 1.x, fixint encoding).      *)
(* The model's integers stay below 2^31; the upper bytes of a u64 are      *)
(* written as they would be and read back with saturation at Saturated.    *)
(***************************************************************************)
Saturated == 2147483646 + 1

U32LE(n) ==
    << n % 256, (n \div 256) % 256, (n \div 65536) % 256, (n \div 16777216) % 256 >>

U64LE(n) == U32LE(n) \o << 0, 0, 0, 0 >>

\* i64 in two's complement: a negative n is the complement of -(n+1).
I64LE(n) ==
    IF n >= 0 THEN U64LE(n)
    ELSE LET m == U64LE(-(n + 1)) IN [i \in 1..8 |-> 255 - m[i]]

FromLE32(b) ==
    IF b[4] >= 128 THEN Saturated
    ELSE b[1] + 256 * b[2] + 65536 * b[3] + 16777216 * b[4]

FromLE64(b) ==
    IF b[5] # 0 \/ b[6] # 0 \/ b[7] # 0 \/ b[8] # 0 THEN Saturated
    ELSE FromLE32(SubSeq(b, 1, 4))

FromLEI64(b) ==
    IF b[8] >= 128
    THEN LET c == [i \in 1..8 |-> 255 - b[i]] IN -(FromLE64(c)) - 1
    ELSE FromLE64(b)

(***************************************************************************)
(* The result of one decoding step: the value and the bytes left.          *)
(***************************************************************************)
Got(v, rest) == [ok |-> TRUE, val |-> v, rest |-> rest]
Bad == [ok |-> FALSE, val |-> 0, rest |-> << >>]

Drop(bs, n) == SubSeq(bs, n + 1, Len(bs))

DecU32(bs) ==
    IF Len(bs) < 4 THEN Bad ELSE Got(FromLE32(SubSeq(bs, 1, 4)), Drop(bs, 4))

DecU64(bs) ==
    IF Len(bs) < 8 THEN Bad ELSE Got(FromLE64(SubSeq(bs, 1, 8)), Drop(bs, 8))

DecI64(bs) ==
    IF Len(bs) < 8 THEN Bad ELSE Got(FromLEI64(SubSeq(bs, 1, 8)), Drop(bs, 8))

DecBool(bs) ==
    IF Len(bs) < 1 \/ bs[1] \notin {0, 1} THEN Bad ELSE Got(bs[1], Drop(bs, 1))

\* One decoding step after another: F gets the value decoded and the bytes
\* left; a failed step fails the whole.
Bind(r, F(_, _)) == IF r.ok THEN F(r.val, r.rest) ELSE Bad

\* A String with its length written as a u32.
EncString_u32(s) == U32LE(Len(s)) \o s

\* A String: u64 length, then that many bytes of UTF-8 (the model's strings
\* are ASCII; a byte above 127 is read as invalid UTF-8).
EncString(s) == U64LE(Len(s)) \o s

TakeString(n, bs) ==
    IF n > Len(bs) \/ (\E i \in 1..n : bs[i] > 127) THEN Bad
    ELSE Got(SubSeq(bs, 1, n), Drop(bs, n))

DecString(bs) == Bind(DecU64(bs), TakeString)

(***************************************************************************)
(* TypedValue and MapKey.  One record shape for every variant: tag, the    *)
(* integer (Int, Bool as 0/1), the bytes (String, the Variant's tag, the   *)
(* Float's 8 IEEE bytes) and the items (a Map's <<key, value>> entries in  *)
(* key order, a Variant's fields).                                         *)
(***************************************************************************)
TInt(n) == [tag |-> "Int", i |-> n, s |-> << >>, items |-> << >>]
TFloat(bits) == [tag |-> "Float", i |-> 0, s |-> bits, items |-> << >>]
TBool(b) == [tag |-> "Bool", i |-> IF b THEN 1 ELSE 0, s |-> << >>, items |-> << >>]
TString(s) == [tag |-> "String", i |-> 0, s |-> s, items |-> << >>]
TMap(entries) == [tag |-> "Map", i |-> 0, s |-> << >>, items |-> entries]
TVariant(t, fields) == [tag |-> "Variant", i |-> 0, s |-> t, items |-> fields]

KInt(n) == [tag |-> "Int", i |-> n, s |-> << >>]
KBool(b) == [tag |-> "Bool", i |-> IF b THEN 1 ELSE 0, s |-> << >>]
KString(s) == [tag |-> "String", i |-> 0, s |-> s]

\* The derived Ord of MapKey: by variant index, then by value.
KeyIndex(k) == CASE k.tag = "Int" -> 0 [] k.tag = "Bool" -> 1 [] OTHER -> 2

RECURSIVE BytesLess(_, _)
BytesLess(a, b) ==
    IF b = << >> THEN FALSE
    ELSE IF a = << >> THEN TRUE
    ELSE IF a[1] # b[1] THEN a[1] < b[1]
    ELSE BytesLess(Tail(a), Tail(b))

KeyLess(a, b) ==
    IF KeyIndex(a) # KeyIndex(b) THEN KeyIndex(a) < KeyIndex(b)
    ELSE IF a.tag = "String" THEN BytesLess(a.s, b.s)
    ELSE a.i < b.i

\* BTreeMap::insert on the entries kept in key order: an equal key is
\* replaced, a new key goes to its place.
RECURSIVE BTreeInsert(_, _, _)
BTreeInsert(entries, k, v) ==
    IF entries = << >> THEN << <<k, v>> >>
    ELSE IF entries[1][1] = k THEN << <<k, v>> >> \o Tail(entries)
    ELSE IF KeyLess(k, entries[1][1]) THEN << <<k, v>> >> \o entries
    ELSE << entries[1] >> \o BTreeInsert(Tail(entries), k, v)

RECURSIVE BTreeCollect(_, _)
BTreeCollect(acc, pairs) ==
    IF pairs = << >> THEN acc
    ELSE BTreeCollect(BTreeInsert(acc, pairs[1][1], pairs[1][2]), Tail(pairs))

EncKey(k) ==
    CASE k.tag = "Int" -> U32LE(0) \o I64LE(k.i)
      [] k.tag = "Bool" -> U32LE(1) \o << k.i >>
      [] OTHER -> U32LE(2) \o EncString(k.s)

DecKeyBody(idx, bs) ==
    CASE idx = 0 -> Bind(DecI64(bs), LAMBDA n, r : Got(KInt(n), r))
      [] idx = 1 -> Bind(DecBool(bs), LAMBDA b, r : Got(KBool(b = 1), r))
      [] idx = 2 -> Bind(DecString(bs), LAMBDA t, r : Got(KString(t), r))
      [] OTHER -> Bad

DecKey(bs) == Bind(DecU32(bs), DecKeyBody)

\* serde's derived Serialize of TypedValue under bincode: the u32 variant
\* index, then the variant's content.
RECURSIVE EncTV(_), EncEntries(_), EncFields(_)
EncTV(v) ==
    CASE v.tag = "Int" -> U32LE(0) \o I64LE(v.i)
      [] v.tag = "Float" -> U32LE(1) \o v.s
      [] v.tag = "Bool" -> U32LE(2) \o << v.i >>
      [] v.tag = "String" -> U32LE(3) \o EncString(v.s)
      [] v.tag = "Map" -> U32LE(4) \o U64LE(Len(v.items)) \o EncEntries(v.items)
      [] OTHER -> U32LE(5) \o EncString(v.s) \o U64LE(Len(v.items)) \o EncFields(v.items)

EncEntries(es) ==
    IF es = << >> THEN << >>
    ELSE EncKey(es[1][1]) \o EncTV(es[1][2]) \o EncEntries(Tail(es))

EncFields(fs) ==
    IF fs = << >> THEN << >> ELSE EncTV(fs[1]) \o EncFields(Tail(fs))

\* The derived Deserialize: the variant index selects what follows.  A Map's
\* entries are collected into the BTreeMap one by one.
RECURSIVE DecTV(_), DecTVBody(_, _), DecEntries(_, _, _), DecFields(_, _, _)
DecTV(bs) == Bind(DecU32(bs), DecTVBody)

DecTVBody(idx, bs) ==
    CASE idx = 0 -> Bind(DecI64(bs), LAMBDA n, r : Got(TInt(n), r))
      [] idx = 1 -> IF Len(bs) < 8 THEN Bad
                    ELSE Got(TFloat(SubSeq(bs, 1, 8)), Drop(bs, 8))
      [] idx = 2 -> Bind(DecBool(bs), LAMBDA b, r : Got(TBool(b = 1), r))
      [] idx = 3 -> Bind(DecString(bs), LAMBDA t, r : Got(TString(t), r))
      [] idx = 4 ->
           Bind(DecU64(bs), LAMBDA n, r :
             Bind(DecEntries(n, << >>, r), LAMBDA es, r2 :
               Got(TMap(BTreeCollect(<< >>, es)), r2)))
      [] idx = 5 ->
           Bind(DecString(bs), LAMBDA t, r :
             Bind(DecU64(r), LAMBDA n, r2 :
               Bind(DecFields(n, << >>, r2), LAMBDA fields, r3 :
                 Got(TVariant(t, fields), r3))))
      [] OTHER -> Bad

DecEntries(n, acc, bs) ==
    IF n = 0 THEN Got(acc, bs)
    ELSE Bind(DecKey(bs), LAMBDA k, r :
           Bind(DecTV(r), LAMBDA v, r2 :
             DecEntries(n - 1, Append(acc, << k, v >>), r2)))

DecFields(n, acc, bs) ==
    IF n = 0 THEN Got(acc, bs)
    ELSE Bind(DecTV(bs), LAMBDA v, r : DecFields(n - 1, Append(acc, v), r))

\* TypedValue::to_bytes and from_bytes: bincode over the whole value.
TypedValue_to_bytes(v) == EncTV(v)
TypedValue_from_bytes(bs) == DecTV(bs)
NotParsed == [ok |-> FALSE, val |-> 0, rest |-> << 0 >>]

\* f64's ==: a NaN (exponent all ones, mantissa not zero) equals nothing,
\* the two zeros equal each other, other values are equal when their bits are.
f64_is_nan(b) ==
    /\ b[8] % 128 = 127
    /\ b[7] >= 240
    /\ (b[7] # 240 \/ \E i \in 1..6 : b[i] # 0)

f64_is_zero(b) == b[8] % 128 = 0 /\ \A i \in 1..7 : b[i] = 0

f64_eq(a, b) ==
    /\ ~f64_is_nan(a)
    /\ ~f64_is_nan(b)
    /\ (a = b \/ (f64_is_zero(a) /\ f64_is_zero(b)))

\* The derived PartialEq of TypedValue: same variant, equal contents.
RECURSIVE TypedValue_eq(_, _)
TypedValue_eq(a, b) ==
    /\ a.tag = b.tag
    /\ CASE a.tag = "Float" -> f64_eq(a.s, b.s)
         [] a.tag = "Map" ->
              /\ Len(a.items) = Len(b.items)
              /\ \A i \in 1..Len(a.items) :
                    /\ a.items[i][1] = b.items[i][1]
                    /\ TypedValue_eq(a.items[i][2], b.items[i][2])
         [] a.tag = "Variant" ->
              /\ a.s = b.s
              /\ Len(a.items) = Len(b.items)
              /\ \A i \in 1..Len(a.items) : TypedValue_eq(a.items[i], b.items[i])
         [] OTHER -> a = b

(***************************************************************************)
(* Event and Snapshot (journal.rs) and their bincode encodings: the        *)
(* struct's fields in declaration order.                                   *)
(***************************************************************************)
Event(seq, event_type, payload, ts) ==
    [seq |-> seq, event_type |-> event_type, payload |-> payload, ts |-> ts]

\* Event::new stamps the event with the clock's reading.
Event_new(seq, event_type, payload, now) == Event(seq, event_type, payload, now)

Event_to_bytes(e) ==
    U64LE(e.seq) \o EncString(e.event_type) \o EncTV(e.payload) \o U64LE(e.ts)

\* bincode::deserialize accepts bytes left over after the value; every
\* failure is mapped to an io::Error of kind InvalidData.
Event_from_bytes(bs) ==
    Bind(DecU64(bs), LAMBDA seq, r1 :
      Bind(DecString(r1), LAMBDA event_type, r2 :
        Bind(DecTV(r2), LAMBDA payload, r3 :
          Bind(DecU64(r3), LAMBDA ts, r4 :
            Got(Event(seq, event_type, payload, ts), r4)))))

Snapshot(seq, state, ts) == [seq |-> seq, state |-> state, ts |-> ts]

Snapshot_to_bytes(s) == U64LE(s.seq) \o EncTV(s.state) \o U64LE(s.ts)

Snapshot_from_bytes(bs) ==
    Bind(DecU64(bs), LAMBDA seq, r1 :
      Bind(DecTV(r1), LAMBDA state, r2 :
        Bind(DecU64(r2), LAMBDA ts, r3 :
          Got(Snapshot(seq, state, ts), r3))))

(***************************************************************************)
(* Actor identifiers and the values the operations are called with.        *)
(***************************************************************************)
\* Two actors; ActorId::as_str renders the UUID in its hyphenated form.
ActorIds == {1, 2}

ActorId_as_str(a) ==
    IF a = 1 THEN "00000000-0000-4000-8000-000000000001"
    ELSE "00000000-0000-4000-8000-000000000002"

EmptyMap == TMap(<< >>)

Deposit == << 68 >>
Withdraw == << 87 >>
Amount == << 97 >>

\* The (event_type, payload) an event of a given seq carries: Deposit events
\* at even seqs, Withdraw events at odd ones.
EventKind(seq) ==
    IF seq % 2 = 0
    THEN << Deposit, TMap(<< << KString(Amount), TInt(100) >> >>) >>
    ELSE << Withdraw, TVariant(Withdraw, << TInt(-50), TBool(TRUE) >>) >>

\* The state a snapshot taken at a given seq holds: the balance after the
\* Deposit at an even seq, the empty map at an odd one.
SnapshotState(seq) ==
    IF seq % 2 = 0 THEN TMap(<< << KString(Amount), TInt(500) >> >>) ELSE EmptyMap

Seqs == 0..MaxSeq

(***************************************************************************)
(* The file system under the journal's base path: the directories present  *)
(* and each file's bytes.  A disk is the record [dirs, files].             *)
(***************************************************************************)
\* actor_dir as it would be if the path were not keyed by the actor.
actor_dir_shared(a) == ActorId_as_str(1)

actor_dir(a) == ActorId_as_str(a)

\* One log file for all the actors.
journal_path_shared(a) == << "journals", "journal.bin" >>

journal_path(a) == << actor_dir(a), "journal.bin" >>
snapshot_path(a) == << actor_dir(a), "snapshot.bin" >>

path_exists(d, p) == p \in DOMAIN d.files

\* fs::create_dir_all
ensure_dir(d, a) == [d EXCEPT !.dirs = @ \cup {actor_dir(a)}]

\* The log opened with truncate(true): the bytes replace the file's.
write_append_truncating(d, p, bytes) ==
    [d EXCEPT !.files =
        [q \in DOMAIN d.files \cup {p} |-> IF q = p THEN bytes ELSE d.files[q]]]

\* write_all on a file opened with create(true).append(true): the bytes go
\* to the end of the file, which is created empty when absent.
write_append(d, p, bytes) ==
    [d EXCEPT !.files =
        [q \in DOMAIN d.files \cup {p} |->
            IF q # p THEN d.files[q]
            ELSE IF p \in DOMAIN d.files THEN d.files[p] \o bytes
            ELSE bytes]]

\* The snapshot file opened without truncation: the bytes go to its end.
write_create_keep(d, p, bytes) == write_append(d, p, bytes)

\* File::create followed by write_all: the file is truncated, then written.
write_create(d, p, bytes) ==
    [d EXCEPT !.files =
        [q \in DOMAIN d.files \cup {p} |-> IF q = p THEN bytes ELSE d.files[q]]]

(***************************************************************************)
(* Journal (journal.rs)                                                    *)
(***************************************************************************)
\* The length prefix written big-endian (to_be_bytes).
write_record_be(d, p, data) ==
    write_append(write_append(d, p, U32LE(Len(data) * 16777216)), p, data)

\* The two writes of append: the 4-byte little-endian length, then the data.
write_record(d, p, data) ==
    write_append(write_append(d, p, U32LE(Len(data))), p, data)

Journal_append(d, a, event) ==
    write_record(ensure_dir(d, a), journal_path(a), Event_to_bytes(event))

IoOk(events) == [ok |-> TRUE, err |-> "", events |-> events]
IoErr(kind) == [ok |-> FALSE, err |-> kind, events |-> << >>]

\* The loop of read_events over the bytes not yet read: a length prefix that
\* cannot be read in full ends the stream; a payload that cannot is an error.
RECURSIVE read_loop(_, _), read_data(_, _, _), push_event(_, _, _)
read_loop(bs, events) ==
    IF Len(bs) < 4 THEN IoOk(events)
    ELSE read_data(FromLE32(SubSeq(bs, 1, 4)), Drop(bs, 4), events)

read_data(len, bs, events) ==
    IF len > Len(bs) THEN IoErr("UnexpectedEof")
    ELSE push_event(Event_from_bytes(SubSeq(bs, 1, len)), Drop(bs, len), events)

\* A decoding failure reported with the kind of a short read.
push_event_as_eof(e, bs, events) ==
    IF ~e.ok THEN IoErr("UnexpectedEof") ELSE read_loop(bs, Append(events, e.val))

push_event(e, bs, events) ==
    IF ~e.ok THEN IoErr("InvalidData") ELSE read_loop(bs, Append(events, e.val))

Journal_read_events(d, a) ==
    IF ~path_exists(d, journal_path(a)) THEN IoOk(<< >>)
    ELSE read_loop(d.files[journal_path(a)], << >>)

\* The filter with >= in place of >.
RECURSIVE filter_after_ge(_, _)
filter_after_ge(events, after_seq) ==
    IF events = << >> THEN << >>
    ELSE IF events[1].seq >= after_seq
         THEN << events[1] >> \o filter_after_ge(Tail(events), after_seq)
         ELSE filter_after_ge(Tail(events), after_seq)

RECURSIVE filter_after(_, _)
filter_after(events, after_seq) ==
    IF events = << >> THEN << >>
    ELSE IF events[1].seq > after_seq
         THEN << events[1] >> \o filter_after(Tail(events), after_seq)
         ELSE filter_after(Tail(events), after_seq)

events_after(r, after_seq) ==
    IF ~r.ok THEN r ELSE IoOk(filter_after(r.events, after_seq))

Journal_read_events_after(d, a, after_seq) ==
    events_after(Journal_read_events(d, a), after_seq)

Journal_save_snapshot(d, a, snapshot) ==
    write_create(ensure_dir(d, a), snapshot_path(a), Snapshot_to_bytes(snapshot))

NoSnapshot == [some |-> FALSE, seq |-> 0, state |-> EmptyMap, ts |-> 0]
SomeSnapshot(s) == [some |-> TRUE, seq |-> s.seq, state |-> s.state, ts |-> s.ts]

SnapOk(snap) == [ok |-> TRUE, err |-> "", snap |-> snap]
SnapErr(kind) == [ok |-> FALSE, err |-> kind, snap |-> NoSnapshot]

decoded_snapshot(s) ==
    IF ~s.ok THEN SnapErr("InvalidData") ELSE SnapOk(SomeSnapshot(s.val))

Journal_load_snapshot(d, a) ==
    IF ~path_exists(d, snapshot_path(a)) THEN SnapOk(NoSnapshot)
    ELSE decoded_snapshot(Snapshot_from_bytes(d.files[snapshot_path(a)]))

\* exists looking for the log file in place of the directory.
Journal_exists_by_log(d, a) == path_exists(d, journal_path(a))

Journal_exists(d, a) == actor_dir(a) \in d.dirs

(***************************************************************************)
(* ActorRuntime: recovery and persistence (runtime.rs)                     *)
(***************************************************************************)
NoState == [ok |-> TRUE, err |-> "", some |-> FALSE, state |-> EmptyMap, seq |-> 0]
Recovered(state, seq) ==
    [ok |-> TRUE, err |-> "", some |-> TRUE, state |-> state, seq |-> seq]
RecoverErr(kind) ==
    [ok |-> FALSE, err |-> kind, some |-> FALSE, state |-> EmptyMap, seq |-> 0]

\* A snapshot was loaded: r holds the events after it.
recover_from_snapshot(snap, r) ==
    IF ~r.ok THEN RecoverErr(r.err)
    ELSE IF r.events = << >> THEN Recovered(snap.state, snap.seq)
    ELSE Recovered(snap.state, r.events[Len(r.events)].seq)

\* The no-snapshot branch reporting no prior state whatever the log holds.
recover_from_events_none(r) == IF ~r.ok THEN RecoverErr(r.err) ELSE NoState

\* No snapshot: r holds all the events.
recover_from_events(r) ==
    IF ~r.ok THEN RecoverErr(r.err)
    ELSE IF r.events = << >> THEN NoState
    ELSE Recovered(EmptyMap, r.events[Len(r.events)].seq)

\* Recovery that takes the whole log instead of the events after the snapshot.
recover_with_unfiltered(d, a, s) ==
    IF ~s.ok THEN RecoverErr(s.err)
    ELSE IF s.snap.some
    THEN recover_from_snapshot(s.snap, Journal_read_events(d, a))
    ELSE recover_from_events(Journal_read_events(d, a))

recover_with(d, a, s) ==
    IF ~s.ok THEN RecoverErr(s.err)
    ELSE IF s.snap.some
    THEN recover_from_snapshot(s.snap, Journal_read_events_after(d, a, s.snap.seq))
    ELSE recover_from_events(Journal_read_events(d, a))

Runtime_recover_state(d, a) == recover_with(d, a, Journal_load_snapshot(d, a))

\* persist_event without the journaling_enabled test.
Runtime_persist_event_always(enabled, d, a, event) == Journal_append(d, a, event)

Runtime_persist_event(enabled, d, a, event) ==
    IF enabled THEN Journal_append(d, a, event) ELSE d

\* save_snapshot with the Snapshot's seq and ts taken from each other.
Runtime_save_snapshot_swapped(enabled, d, a, state, seq, now) ==
    IF enabled THEN Journal_save_snapshot(d, a, Snapshot(now, state, seq)) ELSE d

Runtime_save_snapshot(enabled, d, a, state, seq, now) ==
    IF enabled THEN Journal_save_snapshot(d, a, Snapshot(seq, state, now)) ELSE d

(***************************************************************************)
(* ActorRegistry (runtime.rs): a HashMap from ActorId to ActorEntry behind *)
(* one RwLock.  The map is a function whose domain is the registered ids.  *)
(***************************************************************************)
ActorEntry(mailbox, behavior, running) ==
    [mailbox |-> mailbox, behavior |-> behavior, running |-> running]

\* Option<Mailbox>
NoMailbox == [some |-> FALSE, channel_id |-> 0]
SomeMailbox(channel_id) == [some |-> TRUE, channel_id |-> channel_id]

\* HashMap::new()
Registry_new == << >>

\* register that leaves an entry already present as it is (entry().or_insert).
Registry_register_or_insert(acts, id, mailbox, behavior) ==
    [q \in DOMAIN acts \cup {id} |->
        IF q \in DOMAIN acts THEN acts[q] ELSE ActorEntry(mailbox, behavior, TRUE)]

\* actors.insert(id, ActorEntry { mailbox, behavior, running: true })
Registry_register(acts, id, mailbox, behavior) ==
    [q \in DOMAIN acts \cup {id} |->
        IF q = id THEN ActorEntry(mailbox, behavior, TRUE) ELSE acts[q]]

\* actors.get(id).map(|e| e.mailbox)
Registry_get_mailbox(acts, id) ==
    IF id \in DOMAIN acts THEN SomeMailbox(acts[id].mailbox) ELSE NoMailbox

\* mark_stopped that removes the entry.
Registry_mark_stopped_removing(acts, id) == [q \in DOMAIN acts \ {id} |-> acts[q]]

\* mark_stopped that flips the flag whichever way it stands.
Registry_mark_stopped_toggling(acts, id) ==
    IF id \in DOMAIN acts THEN [acts EXCEPT ![id].running = ~@] ELSE acts

\* if let Some(entry) = actors.get_mut(id) { entry.running = false }
Registry_mark_stopped(acts, id) ==
    IF id \in DOMAIN acts THEN [acts EXCEPT ![id].running = FALSE] ELSE acts

\* unregister that keeps the entry and marks it stopped.
Registry_unregister_stopping(acts, id) ==
    IF id \in DOMAIN acts THEN [acts EXCEPT ![id].running = FALSE] ELSE acts

\* actors.remove(id)
Registry_unregister(acts, id) == [q \in DOMAIN acts \ {id} |-> acts[q]]

\* actors.get(id).is_some_and(|e| e.running)
Registry_is_running(acts, id) == id \in DOMAIN acts /\ acts[id].running

(***************************************************************************)
(* The RwLock around the map (std::sync::RwLock): one writer or any number *)
(* of readers hold it; a writer that panics while holding it leaves it     *)
(* poisoned, and read() and write() on a poisoned lock return Err, which   *)
(* the registry's expect() turns into a panic of the caller.               *)
(***************************************************************************)
\* RwLock::new(HashMap::new())
RwLock_new == [writer |-> 0, readers |-> {}, poisoned |-> FALSE]

\* write() granted whoever holds the lock.
write_granted_unguarded(l) == TRUE

\* write() returns once no reader and no writer holds the lock.
write_granted(l) == l.writer = 0 /\ l.readers = {}

\* read() returns once no writer holds the lock.
read_granted(l) == l.writer = 0

\* The poison error recovered with into_inner() in place of expect().
expect_guard_into_inner(l) == "guard"

\* .expect("registry ... lock poisoned") on the LockResult.
expect_guard(l) == IF l.poisoned THEN "panic" ELSE "guard"

\* The guard is dropped at the end of the call.
release(l, u) ==
    [l EXCEPT !.writer = IF @ = u THEN 0 ELSE @, !.readers = @ \ {u}]

\* The guard is dropped while its holder unwinds from a panic.
release_panicking(l, u) ==
    [release(l, u) EXCEPT !.poisoned = @ \/ l.writer = u]

WriteOps == {"register", "mark_stopped", "unregister"}
ReadOps == {"get_mailbox", "is_running"}

\* The map after the body of a call.
Registry_apply(acts, c) ==
    IF c.op = "register"
    THEN Registry_register(acts, c.id, c.channel_id, c.behavior)
    ELSE IF c.op = "mark_stopped" THEN Registry_mark_stopped(acts, c.id)
    ELSE IF c.op = "unregister" THEN Registry_unregister(acts, c.id)
    ELSE acts

\* What the body of a call returns.
Registry_return(acts, c) ==
    IF c.op = "get_mailbox"
    THEN [ok |-> TRUE, err |-> "", value |-> Registry_get_mailbox(acts, c.id)]
    ELSE IF c.op = "is_running"
    THEN [ok |-> TRUE, err |-> "", value |-> Registry_is_running(acts, c.id)]
    ELSE [ok |-> TRUE, err |-> ""]

(***************************************************************************)
(* Actor (actor.rs): the sequence counter events take their seq from.      *)
(***************************************************************************)
\* Actor::new and Actor::with_id both start the counter at 0.
Actor_new_sequence == 0
Actor_with_id_sequence == 0

\* next_sequence advancing the counter before it reads it.
next_sequence_advanced(seq) == [ret |-> seq + 1, sequence |-> seq + 1]

\* Actor::next_sequence: returns the counter and advances it by one.
next_sequence(seq) == [ret |-> seq, sequence |-> seq + 1]

(***************************************************************************)
(* The state: the runtime's configuration, the files under its base path,  *)
(* each actor's counter, the last call with what it returned, and the      *)
(* history of the calls.                                                   *)
(***************************************************************************)
\* The execution units (threads or coroutines) that call the registry, and a
\* unit that is inside no call.
Units == {1, 2, 3}
Idle == [op |-> "idle", id |-> 0, channel_id |-> 0, behavior |-> ""]

\* The worker threads the coroutine scheduler runs the actors' coroutines
\* on, and a coroutine not yet started.
Threads == {1, 2}
NotStarted == 0

\* Option<ActorId>: None.
NoActor == 0

\* The ActorRuntime instances constructed in the process.
Runtimes == {1, 2}

\* The execution units that append to the journal with nothing between them
\* to put their calls in order, and a unit inside no append.
Writers == {1, 2}
NoJob == [step |-> "idle", actor |-> 0, data |-> << >>]

VARIABLES
    journaling_enabled, \* RuntimeConfig.journaling_enabled
    dirs,               \* the directories present under the base path
    files,              \* path -> bytes, for the files present
    sequence,           \* Actor.sequence of each actor's live instance
    nwrites,            \* persist_event / save_snapshot calls made so far
    last,               \* the last call: [op, actor, k, res]
    calls,              \* history: the <<op, actor>> of the write calls made
    appended,           \* history: per actor, the events Journal::append wrote
    saved,              \* history: per actor, the snapshots
                        \* Journal::save_snapshot wrote
    saves_in_log,       \* history: per actor, every snapshot written so far
                        \* had a seq some already appended event reached
    durable,            \* the directories and files as stable storage holds
                        \* them: what a machine crash leaves
    shape,              \* history: per actor, the shape of the log's tail
    interrupted,        \* history: per actor, the snapshot a save_snapshot
                        \* was writing over an older one when the process died
    actors,             \* ActorRegistry.actors: id -> ActorEntry
    prev,               \* history: actors before the last registry call
    lock,               \* the RwLock: its writer, its readers, poisoned or not
    pc,                 \* per execution unit, the registry call it is inside
    linear,             \* history: the map the writes give when applied one
                        \* after the other in the order they took the lock
    CURRENT_ACTOR_ID,   \* per thread, the thread-local slot
    on,                 \* per actor coroutine, the thread it runs on
    own,                \* history: per actor coroutine, what it last set
    view,               \* history: per ActorRuntime, the registry its own
                        \* calls alone would have made
    jpc,                \* per actor, where its writer is inside append or
                        \* save_snapshot
    corrupted,          \* history: the actors whose log was damaged
    unreadable,         \* the paths whose file cannot be opened for reading
    fault,              \* history: per actor, what was done to its files
    value,              \* the TypedValue last serialized
    wire,               \* the bytes to_bytes gave for it
    parsed,             \* what from_bytes made of them
    handed,             \* history: per actor, what next_sequence returned to
                        \* the calls made on its live instance
    wjob                \* per execution unit, the append it is inside

\* What the crashes add to the state.
crash_vars == << durable, shape, interrupted >>

\* The registry: its map, and the map as it was before the last call.
registry_vars == << actors, prev >>

\* The lock, and the calls inside it.
lock_vars == << lock, pc, linear >>

\* The current-actor slots, and the coroutines using them.
context_vars == << CURRENT_ACTOR_ID, on, own >>

\* The rest of the state, which the calls above leave alone.
step_vars == << jpc, corrupted >>
fault_vars == << unreadable, fault >>
codec_vars == << value, wire, parsed >>
instance_vars == << handed >>
race_vars == << wjob >>
other_components ==
    << view, step_vars, fault_vars, codec_vars, instance_vars, race_vars >>

\* The state outside the journal's files.
outside_journal == << registry_vars, lock_vars, context_vars, other_components >>

\* The state outside the runtime's calls.
outside_runtime == << crash_vars, outside_journal >>

vars == << journaling_enabled, dirs, files, sequence, nwrites, last, calls,
           appended, saved, saves_in_log, outside_runtime >>

disk == [dirs |-> dirs, files |-> files]

\* The clock's reading in milliseconds since the epoch.
Now == 300

Ret == [ok |-> TRUE, err |-> ""]

\* The highest seq among events (-1 when there is none).
RECURSIVE MaxSeqOf(_)
MaxSeqOf(events) ==
    IF events = << >> THEN -1
    ELSE IF events[1].seq > MaxSeqOf(Tail(events)) THEN events[1].seq
    ELSE MaxSeqOf(Tail(events))

\* The snapshot last written for a, as load_snapshot would return it.
LastSaved(a) ==
    IF saved[a] = << >> THEN NoSnapshot ELSE SomeSnapshot(saved[a][Len(saved[a])])

Init ==
    /\ journaling_enabled \in BOOLEAN
    /\ dirs = {}
    /\ files = << >>
    /\ sequence = [a \in ActorIds |-> Actor_new_sequence]
    /\ nwrites = 0
    /\ last = [op |-> "new", actor |-> 0, k |-> 0, res |-> Ret]
    /\ calls = {}
    /\ appended = [a \in ActorIds |-> << >>]
    /\ saved = [a \in ActorIds |-> << >>]
    /\ saves_in_log = [a \in ActorIds |-> TRUE]
    /\ durable = [dirs |-> {}, files |-> << >>]
    /\ shape = [a \in ActorIds |-> "clean"]
    /\ interrupted = [a \in ActorIds |-> NoSnapshot]
    /\ actors = Registry_new
    /\ prev = Registry_new
    /\ lock = RwLock_new
    /\ pc = [u \in Units |-> Idle]
    /\ linear = Registry_new
    /\ CURRENT_ACTOR_ID = [t \in Threads |-> NoActor]
    /\ on = [u \in ActorIds |-> NotStarted]
    /\ own = [u \in ActorIds |-> NoActor]
    /\ view = [r \in Runtimes |-> Registry_new]
    /\ jpc = [a \in ActorIds |-> "idle"]
    /\ corrupted = {}
    /\ unreadable = {}
    /\ fault = [a \in ActorIds |-> "none"]
    /\ value = TInt(0)
    /\ wire = << >>
    /\ parsed = NotParsed
    /\ handed = [a \in ActorIds |-> << >>]
    /\ wjob = [u \in Writers |-> NoJob]

Called(op, a, k, res) == [op |-> op, actor |-> a, k |-> k, res |-> res]

\* A write call has returned Ok leaving the disk as `after`.
Written(op, a, seq, after) ==
    /\ nwrites < MaxWrites
    /\ dirs' = after.dirs
    /\ files' = after.files
    /\ nwrites' = nwrites + 1
    /\ last' = Called(op, a, seq, Ret)
    /\ calls' = calls \cup {<< op, a >>}
    /\ UNCHANGED << journaling_enabled, outside_runtime >>

\* ActorRuntime::persist_event(id, &event)
PersistEventOf(a, event) ==
    /\ Written("persist_event", a, event.seq,
               Runtime_persist_event(journaling_enabled, disk, a, event))
    /\ appended' = IF journaling_enabled
                   THEN [appended EXCEPT ![a] = Append(@, event)]
                   ELSE appended
    /\ UNCHANGED << saved, saves_in_log >>

\* ActorRuntime::save_snapshot(id, state, seq)
SaveSnapshotOf(a, state, seq) ==
    /\ Written("save_snapshot", a, seq,
               Runtime_save_snapshot(journaling_enabled, disk, a, state, seq, Now))
    /\ saved' = IF journaling_enabled
                THEN [saved EXCEPT ![a] = Append(@, Snapshot(seq, state, Now))]
                ELSE saved
    /\ saves_in_log' = IF journaling_enabled
                       THEN [saves_in_log EXCEPT
                                ![a] = @ /\ seq <= MaxSeqOf(appended[a])]
                       ELSE saves_in_log
    /\ UNCHANGED appended

\* A caller persists an event it built with Event::new(seq, type, payload).
PersistEvent(a, seq) ==
    /\ PersistEventOf(a, Event_new(seq, EventKind(seq)[1], EventKind(seq)[2], Now))
    /\ UNCHANGED sequence

\* A caller saves a snapshot of a state at a seq of its choice.
SaveSnapshot(a, seq) ==
    /\ SaveSnapshotOf(a, SnapshotState(seq), seq)
    /\ UNCHANGED sequence

Reads == << journaling_enabled, dirs, files, sequence, nwrites, calls, appended,
            saved, saves_in_log, outside_runtime >>

\* Journal::read_events(id)
ReadEvents(a) ==
    /\ last' = Called("read_events", a, 0, Journal_read_events(disk, a))
    /\ UNCHANGED Reads

\* Journal::read_events_after(id, after_seq)
ReadEventsAfter(a, k) ==
    /\ last' = Called("read_events_after", a, k, Journal_read_events_after(disk, a, k))
    /\ UNCHANGED Reads

\* Journal::load_snapshot(id)
LoadSnapshot(a) ==
    /\ last' = Called("load_snapshot", a, 0, Journal_load_snapshot(disk, a))
    /\ UNCHANGED Reads

\* Journal::exists(id)
Exists(a) ==
    /\ last' = Called("exists", a, 0,
                      [ok |-> TRUE, err |-> "", value |-> Journal_exists(disk, a)])
    /\ UNCHANGED Reads

\* ActorRuntime::recover_state(id)
RecoverState(a) ==
    /\ last' = Called("recover_state", a, 0, Runtime_recover_state(disk, a))
    /\ UNCHANGED Reads

\* The thresholds read_events_after is asked for: up to one above MaxSeq.
Thresholds == 0..(MaxSeq + 1)

Next ==
    \/ \E a \in ActorIds, seq \in Seqs : PersistEvent(a, seq)
    \/ \E a \in ActorIds, seq \in Seqs : SaveSnapshot(a, seq)
    \/ \E a \in ActorIds : ReadEvents(a)
    \/ \E a \in ActorIds, k \in Thresholds : ReadEventsAfter(a, k)
    \/ \E a \in ActorIds : LoadSnapshot(a)
    \/ \E a \in ActorIds : Exists(a)
    \/ \E a \in ActorIds : RecoverState(a)

Spec == Init /\ [][Next]_vars

(***************************************************************************)
(* The actor layer driving the runtime: every event takes its seq from     *)
(* the actor's counter, a snapshot is taken at the seq of the last event,  *)
(* and a restarted actor is recreated with Actor::with_id and recovered.   *)
(***************************************************************************)
\* The actor journals an event before it changes its state: seq from
\* next_sequence, then persist_event.
ActorEmit(a) ==
    /\ sequence[a] <= MaxSeq
    /\ PersistEventOf(a, Event_new(next_sequence(sequence[a]).ret,
                                   EventKind(sequence[a])[1],
                                   EventKind(sequence[a])[2], Now))
    /\ sequence' = [sequence EXCEPT ![a] = next_sequence(@).sequence]

\* The actor snapshots its state as of the last event it issued.
ActorSnapshot(a) ==
    /\ sequence[a] > 0
    /\ SaveSnapshotOf(a, SnapshotState(sequence[a] - 1), sequence[a] - 1)
    /\ UNCHANGED sequence

\* The process restarts: the actor is recreated with Actor::with_id and its
\* state recovered with recover_state.
ActorRestart(a) ==
    /\ sequence' = [sequence EXCEPT ![a] = Actor_with_id_sequence]
    /\ last' = Called("recover_state", a, 0, Runtime_recover_state(disk, a))
    /\ UNCHANGED << journaling_enabled, dirs, files, nwrites, calls, appended,
                    saved, saves_in_log, outside_runtime >>

NextActor ==
    \/ \E a \in ActorIds : ActorEmit(a)
    \/ \E a \in ActorIds : ActorSnapshot(a)
    \/ \E a \in ActorIds : ActorRestart(a)
    \/ \E a \in ActorIds : ReadEvents(a)
    \/ \E a \in ActorIds : LoadSnapshot(a)

SpecActor == Init /\ [][NextActor]_vars

(***************************************************************************)
(* The journal under crashes.  A process that dies inside append or        *)
(* save_snapshot leaves the bytes its write calls had handed to the        *)
(* operating system; neither function calls sync_all or sync_data, so the  *)
(* bytes of a returned call reach stable storage only when the operating   *)
(* system writes them back, and a machine crash leaves what had reached    *)
(* it.  The caller appends its events in seq order and snapshots at the    *)
(* seq of its last event.                                                  *)
(***************************************************************************)
\* The bytes append hands to write_all: the length prefix, then the data.
record_of(data) == U32LE(Len(data)) \o data

\* The places inside a record of n bytes where the writing stops: inside the
\* prefix, after it, and inside the payload.
TornCuts(n) == {c \in 1..(n - 1) : c \in {2, 4} \/ c = n - 1}

\* The places where the writing of a snapshot of n bytes stops: right after
\* File::create, and inside the data.
SnapshotCuts(n) == {c \in 0..(n - 1) : c = 0 \/ c = n - 1}

\* Journal::append stopped after `cut` bytes of the record were written.
Journal_append_interrupted(d, a, event, cut) ==
    write_append(ensure_dir(d, a), journal_path(a),
                 SubSeq(record_of(Event_to_bytes(event)), 1, cut))

\* Journal::save_snapshot stopped after File::create truncated the file and
\* `cut` bytes of the data were written.
Journal_save_snapshot_interrupted(d, a, snapshot, cut) ==
    write_create(ensure_dir(d, a), snapshot_path(a),
                 SubSeq(Snapshot_to_bytes(snapshot), 1, cut))

\* The event the caller appends next for a, and the snapshot it saves next.
NextEvent(a) ==
    Event_new(Len(appended[a]), EventKind(Len(appended[a]))[1],
              EventKind(Len(appended[a]))[2], Now)
NextSnapshot(a) ==
    Snapshot(Len(appended[a]) - 1, SnapshotState(Len(saved[a])), Now)

\* The shape of a log's tail once more bytes are written after it.
Extended(sh, whole) ==
    IF sh = "clean" THEN (IF whole THEN "clean" ELSE "torn") ELSE "other"

\* A write to the journal files leaving the disk as `after`.
CrashWrite(op, a, k, after) ==
    /\ nwrites < MaxWrites
    /\ dirs' = after.dirs
    /\ files' = after.files
    /\ nwrites' = nwrites + 1
    /\ last' = Called(op, a, k, Ret)
    /\ calls' = calls \cup {<< op, a >>}
    /\ UNCHANGED << journaling_enabled, sequence, saves_in_log, durable,
                    outside_journal >>

\* Journal::append(id, &event) returns Ok.
JournalAppend(a) ==
    /\ Len(appended[a]) <= MaxSeq
    /\ CrashWrite("append", a, Len(appended[a]), Journal_append(disk, a, NextEvent(a)))
    /\ appended' = [appended EXCEPT ![a] = Append(@, NextEvent(a))]
    /\ shape' = [shape EXCEPT ![a] = Extended(@, TRUE)]
    /\ UNCHANGED << saved, interrupted >>

\* The process dies inside Journal::append, cut bytes into the record.
JournalAppendTorn(a, cut) ==
    /\ Len(appended[a]) <= MaxSeq
    /\ cut \in TornCuts(Len(record_of(Event_to_bytes(NextEvent(a)))))
    /\ CrashWrite("append_interrupted", a, cut,
                  Journal_append_interrupted(disk, a, NextEvent(a), cut))
    /\ shape' = [shape EXCEPT ![a] = Extended(@, FALSE)]
    /\ UNCHANGED << appended, saved, interrupted >>

\* Journal::save_snapshot(id, &snapshot) returns Ok.
JournalSave(a) ==
    /\ appended[a] # << >>
    /\ CrashWrite("save_snapshot", a, Len(appended[a]) - 1,
                  Journal_save_snapshot(disk, a, NextSnapshot(a)))
    /\ saved' = [saved EXCEPT ![a] = Append(@, NextSnapshot(a))]
    /\ interrupted' = [interrupted EXCEPT ![a] = NoSnapshot]
    /\ UNCHANGED << appended, shape >>

\* The process dies inside Journal::save_snapshot, cut bytes into the data.
JournalSaveTorn(a, cut) ==
    /\ appended[a] # << >>
    /\ cut \in SnapshotCuts(Len(Snapshot_to_bytes(NextSnapshot(a))))
    /\ CrashWrite("save_snapshot_interrupted", a, cut,
                  Journal_save_snapshot_interrupted(disk, a, NextSnapshot(a), cut))
    /\ interrupted' = [interrupted EXCEPT ![a] = SomeSnapshot(NextSnapshot(a))]
    /\ UNCHANGED << appended, saved, shape >>

\* The operating system writes the directories and the files' bytes back to
\* stable storage.
OsWriteback ==
    /\ durable # disk
    /\ durable' = disk
    /\ last' = Called("writeback", 0, 0, Ret)
    /\ UNCHANGED << journaling_enabled, dirs, files, sequence, nwrites, calls,
                    appended, saved, saves_in_log, shape, interrupted,
                    outside_journal >>

\* p holds the same bytes on stable storage as the process sees.
Settled(p) ==
    IF p \in DOMAIN files
    THEN p \in DOMAIN durable.files /\ durable.files[p] = files[p]
    ELSE p \notin DOMAIN durable.files

\* The machine crashes and restarts: the files are what stable storage held.
MachineCrash ==
    /\ durable # disk
    /\ dirs' = durable.dirs
    /\ files' = durable.files
    /\ shape' = [a \in ActorIds |->
                    IF Settled(journal_path(a)) THEN shape[a] ELSE "other"]
    /\ last' = Called("machine_crash", 0, 0, Ret)
    /\ UNCHANGED << journaling_enabled, sequence, nwrites, calls, appended, saved,
                    saves_in_log, durable, interrupted, outside_journal >>

\* The cut points offered to the interrupted writes.
Cuts == 0..80

NextCrash ==
    \/ \E a \in ActorIds : JournalAppend(a)
    \/ \E a \in ActorIds, cut \in Cuts : JournalAppendTorn(a, cut)
    \/ \E a \in ActorIds : JournalSave(a)
    \/ \E a \in ActorIds, cut \in Cuts : JournalSaveTorn(a, cut)
    \/ OsWriteback
    \/ MachineCrash
    \/ \E a \in ActorIds : ReadEvents(a)
    \/ \E a \in ActorIds : LoadSnapshot(a)

\* The journal is used directly: the runtime's journaling flag is on.
InitCrash == Init /\ journaling_enabled

SpecCrash == InitCrash /\ [][NextCrash]_vars

(***************************************************************************)
(* The registry, one call at a time: each call takes the lock, does its    *)
(* work on the map and releases the lock before the next call starts.      *)
(***************************************************************************)
\* The channel ids mailboxes are made of, and the behavior registered with
\* each.
Mailboxes == {41, 42}
BehaviorOf(channel_id) == IF channel_id = 41 THEN "counter" ELSE "echo"

\* What a registry call leaves alone.
RegistryFrame ==
    << journaling_enabled, dirs, files, sequence, nwrites, calls, appended, saved,
       saves_in_log, crash_vars, lock_vars, context_vars, other_components >>

Value(v) == [ok |-> TRUE, err |-> "", value |-> v]

\* REGISTRY.register(id, mailbox, behavior)
Register(id, channel_id) ==
    /\ actors' = Registry_register(actors, id, channel_id, BehaviorOf(channel_id))
    /\ prev' = actors
    /\ last' = Called("register", id, channel_id, Ret)
    /\ UNCHANGED RegistryFrame

\* REGISTRY.get_mailbox(&id)
GetMailbox(id) ==
    /\ last' = Called("get_mailbox", id, 0, Value(Registry_get_mailbox(actors, id)))
    /\ prev' = actors
    /\ UNCHANGED << actors, RegistryFrame >>

\* REGISTRY.mark_stopped(&id)
MarkStopped(id) ==
    /\ actors' = Registry_mark_stopped(actors, id)
    /\ prev' = actors
    /\ last' = Called("mark_stopped", id, 0, Ret)
    /\ UNCHANGED RegistryFrame

\* REGISTRY.unregister(&id)
Unregister(id) ==
    /\ actors' = Registry_unregister(actors, id)
    /\ prev' = actors
    /\ last' = Called("unregister", id, 0, Ret)
    /\ UNCHANGED RegistryFrame

\* REGISTRY.is_running(&id)
IsRunning(id) ==
    /\ last' = Called("is_running", id, 0, Value(Registry_is_running(actors, id)))
    /\ prev' = actors
    /\ UNCHANGED << actors, RegistryFrame >>

NextRegistry ==
    \/ \E id \in ActorIds, channel_id \in Mailboxes : Register(id, channel_id)
    \/ \E id \in ActorIds : GetMailbox(id)
    \/ \E id \in ActorIds : MarkStopped(id)
    \/ \E id \in ActorIds : Unregister(id)
    \/ \E id \in ActorIds : IsRunning(id)

SpecRegistry == Init /\ [][NextRegistry]_vars

(***************************************************************************)
(* The registry called from several execution units at once.  A call       *)
(* takes the lock (write() for register, mark_stopped and unregister,      *)
(* read() for get_mailbox and is_running), panics when it finds the lock   *)
(* poisoned, runs its body and drops the guard when it returns.  A writer  *)
(* may panic inside its body.                                              *)
(***************************************************************************)
\* The calls a unit may make.
RegistryCalls ==
    {[op |-> "register", id |-> id, channel_id |-> m, behavior |-> BehaviorOf(m)] :
        id \in ActorIds, m \in Mailboxes}
    \cup {[op |-> o, id |-> id, channel_id |-> 0, behavior |-> ""] :
            o \in {"mark_stopped", "unregister", "get_mailbox", "is_running"},
            id \in ActorIds}

\* The call a unit made panicked.
Panicked == [ok |-> FALSE, err |-> "panic"]

\* What the registry's calls leave alone.
LockFrame ==
    << journaling_enabled, dirs, files, sequence, nwrites, calls, appended, saved,
       saves_in_log, crash_vars, context_vars, other_components >>

\* The lock once u holds it for the call c.
locked(l, u, c) ==
    IF c.op \in WriteOps THEN [l EXCEPT !.writer = u]
    ELSE [l EXCEPT !.readers = @ \cup {u}]

\* u has been granted the lock for the call c: expect() panics or hands u
\* the guard.
Granted(u, c, outcome) ==
    IF outcome = "panic"
    THEN /\ last' = Called(c.op, c.id, u, Panicked)
         /\ UNCHANGED << actors, prev, lock, pc, linear >>
    ELSE /\ lock' = locked(lock, u, c)
         /\ pc' = [pc EXCEPT ![u] = c]
         /\ linear' = Registry_apply(linear, c)
         /\ UNCHANGED << actors, prev, last >>

\* Unit u starts the call c: self.actors.write() or self.actors.read(),
\* then expect().
Acquire(u, c) ==
    /\ pc[u] = Idle
    /\ IF c.op \in WriteOps THEN write_granted(lock) ELSE read_granted(lock)
    /\ Granted(u, c, expect_guard(lock))
    /\ UNCHANGED LockFrame

\* Unit u runs the body of its call and returns, dropping the guard.
Complete(u) ==
    /\ pc[u] # Idle
    /\ actors' = Registry_apply(actors, pc[u])
    /\ prev' = actors
    /\ last' = Called(pc[u].op, pc[u].id, u, Registry_return(actors, pc[u]))
    /\ lock' = release(lock, u)
    /\ pc' = [pc EXCEPT ![u] = Idle]
    /\ UNCHANGED << linear, LockFrame >>

\* Unit u panics inside the body of a writing call, before or after the map
\* was changed; the guard is dropped during the unwinding.
WriterPanic(u, changed) ==
    /\ pc[u].op \in WriteOps
    /\ actors' = IF changed THEN Registry_apply(actors, pc[u]) ELSE actors
    /\ prev' = actors
    /\ last' = Called(pc[u].op, pc[u].id, u, Panicked)
    /\ lock' = release_panicking(lock, u)
    /\ pc' = [pc EXCEPT ![u] = Idle]
    /\ UNCHANGED << linear, LockFrame >>

NextLock ==
    \/ \E u \in Units, c \in RegistryCalls : Acquire(u, c)
    \/ \E u \in Units : Complete(u)
    \/ \E u \in Units, changed \in BOOLEAN : WriterPanic(u, changed)

SpecLock == Init /\ [][NextLock]_vars

(***************************************************************************)
(* The current-actor slot.  CURRENT_ACTOR_ID is a thread_local: there is   *)
(* one slot per thread.  Each actor is a coroutine, which the scheduler    *)
(* starts on one of its worker threads; the coroutine of actor a sets the  *)
(* slot to a when it enters its loop and clears it when it leaves.         *)
(***************************************************************************)
\* CURRENT_ACTOR_ID.with(|cell| *cell.borrow_mut() = Some(id)) on thread t
set_current_actor(slots, t, id) == [slots EXCEPT ![t] = id]

\* CURRENT_ACTOR_ID.with(|cell| cell.borrow().clone()) on thread t
get_current_actor(slots, t) == slots[t]

\* clear_current_actor leaving the slot as it is.
clear_current_actor_keeping(slots, t) == slots

\* CURRENT_ACTOR_ID.with(|cell| *cell.borrow_mut() = None) on thread t
clear_current_actor(slots, t) == [slots EXCEPT ![t] = NoActor]

\* seq_actors_self on thread t: the id's string pushed on the stack, or the
\* panic "actor-self called outside actor context".
seq_actors_self(slots, t) ==
    IF get_current_actor(slots, t) = NoActor
    THEN [ok |-> FALSE, err |-> "panic", value |-> ""]
    ELSE [ok |-> TRUE, err |-> "",
          value |-> ActorId_as_str(get_current_actor(slots, t))]

\* The coroutine u has its thread to itself.
AloneOn(u) == \A v \in ActorIds \ {u} : on[v] # on[u]

\* What the slot's calls leave alone.
ContextFrame ==
    << journaling_enabled, dirs, files, sequence, nwrites, calls, appended, saved,
       saves_in_log, crash_vars, registry_vars, lock_vars, other_components >>

\* The scheduler starts the coroutine of actor u on the worker thread t.
Start(u, t) ==
    /\ on[u] = NotStarted
    /\ on' = [on EXCEPT ![u] = t]
    /\ last' = Called("start", u, t, Ret)
    /\ UNCHANGED << CURRENT_ACTOR_ID, own, ContextFrame >>

\* The coroutine u calls set_current_actor(id).
SetCurrentActor(u, id) ==
    /\ on[u] # NotStarted
    /\ CURRENT_ACTOR_ID' = set_current_actor(CURRENT_ACTOR_ID, on[u], id)
    /\ own' = [own EXCEPT ![u] = id]
    /\ last' = Called("set_current_actor", u, on[u], Ret)
    /\ UNCHANGED << on, ContextFrame >>

\* The coroutine of actor u calls get_current_actor().
GetCurrentActor(u) ==
    /\ on[u] # NotStarted
    /\ last' = Called("get_current_actor", u, on[u],
                      Value(get_current_actor(CURRENT_ACTOR_ID, on[u])))
    /\ UNCHANGED << context_vars, ContextFrame >>

\* The coroutine of actor u calls clear_current_actor().
ClearCurrentActor(u) ==
    /\ on[u] # NotStarted
    /\ CURRENT_ACTOR_ID' = clear_current_actor(CURRENT_ACTOR_ID, on[u])
    /\ own' = [own EXCEPT ![u] = NoActor]
    /\ last' = Called("clear_current_actor", u, on[u], Ret)
    /\ UNCHANGED << on, ContextFrame >>

\* The coroutine of actor u runs actor-self: seq_actors_self(stack).
ActorSelf(u) ==
    /\ on[u] # NotStarted
    /\ last' = Called("seq_actors_self", u, on[u],
                      seq_actors_self(CURRENT_ACTOR_ID, on[u]))
    /\ UNCHANGED << context_vars, ContextFrame >>

NextContext ==
    \/ \E u \in ActorIds, t \in Threads : Start(u, t)
    \/ \E u \in ActorIds, id \in ActorIds : SetCurrentActor(u, id)
    \/ \E u \in ActorIds : GetCurrentActor(u)
    \/ \E u \in ActorIds : ClearCurrentActor(u)
    \/ \E u \in ActorIds : ActorSelf(u)

SpecContext == Init /\ [][NextContext]_vars

(***************************************************************************)
(* Several ActorRuntime instances in one process.  Each instance forwards  *)
(* its registry calls to the one static REGISTRY.                          *)
(***************************************************************************)
\* What the runtimes' registry calls leave alone.
RuntimesFrame ==
    << journaling_enabled, dirs, files, sequence, nwrites, calls, appended, saved,
       saves_in_log, crash_vars, lock_vars, context_vars, step_vars, fault_vars,
       codec_vars, instance_vars, race_vars >>

\* A call c made through the runtime r reaches REGISTRY.
RuntimeCall(r, name, c) ==
    /\ actors' = Registry_apply(actors, c)
    /\ prev' = actors
    /\ view' = [view EXCEPT ![r] = Registry_apply(@, c)]
    /\ last' = Called(name, c.id, r, Registry_return(actors, c))
    /\ UNCHANGED RuntimesFrame

\* ActorRuntime::register_actor(id, mailbox, behavior)
RuntimeRegisterActor(r, c) == c.op = "register" /\ RuntimeCall(r, "register_actor", c)

\* ActorRuntime::get_mailbox(&id)
RuntimeGetMailbox(r, c) == c.op = "get_mailbox" /\ RuntimeCall(r, "get_mailbox", c)

\* ActorRuntime::is_running(&id)
RuntimeIsRunning(r, c) == c.op = "is_running" /\ RuntimeCall(r, "is_running", c)

\* ActorRuntime::stop_actor(&id)
RuntimeStopActor(r, c) == c.op = "mark_stopped" /\ RuntimeCall(r, "stop_actor", c)

\* ActorRuntime::unregister_actor(&id)
RuntimeUnregisterActor(r, c) ==
    c.op = "unregister" /\ RuntimeCall(r, "unregister_actor", c)

NextRuntimes ==
    \/ \E r \in Runtimes, c \in RegistryCalls : RuntimeRegisterActor(r, c)
    \/ \E r \in Runtimes, c \in RegistryCalls : RuntimeGetMailbox(r, c)
    \/ \E r \in Runtimes, c \in RegistryCalls : RuntimeIsRunning(r, c)
    \/ \E r \in Runtimes, c \in RegistryCalls : RuntimeStopActor(r, c)
    \/ \E r \in Runtimes, c \in RegistryCalls : RuntimeUnregisterActor(r, c)

SpecRuntimes == Init /\ [][NextRuntimes]_vars

(***************************************************************************)
(* The builtins linked into compiled programs (ffi.rs): actor-spawn        *)
(* registers a new actor; actor-stop and journal-append pop their argument *)
(* and return the stack, the rest of their bodies being TODO comments.     *)
(***************************************************************************)
\* seq_actors_spawn: REGISTRY.register(actor_id, mailbox, "behavior")
seq_actors_spawn(acts, id, channel_id) ==
    Registry_register(acts, id, channel_id, "behavior")

\* seq_actors_stop: pop_value(stack), then stack is returned.
seq_actors_stop(acts, id) == acts

\* seq_actors_journal_append: pop_value(stack), then stack is returned.
seq_actors_journal_append(d, id, event) == d

\* What the builtins leave alone.
FfiFrame ==
    << journaling_enabled, sequence, nwrites, calls, appended, saved,
       saves_in_log, crash_vars, lock_vars, context_vars, other_components >>

\* actor-spawn: the id is a fresh ActorId::new().
ActorSpawn(id, channel_id) ==
    /\ id \notin DOMAIN actors
    /\ actors' = seq_actors_spawn(actors, id, channel_id)
    /\ prev' = actors
    /\ last' = Called("seq_actors_spawn", id, channel_id, Ret)
    /\ UNCHANGED << dirs, files, FfiFrame >>

\* actor-stop
ActorStop(id) ==
    /\ actors' = seq_actors_stop(actors, id)
    /\ prev' = actors
    /\ last' = Called("seq_actors_stop", id, 0, Ret)
    /\ UNCHANGED << dirs, files, FfiFrame >>

\* The disk becomes `after`.
DiskBecomes(after) == dirs' = after.dirs /\ files' = after.files

\* journal-append run by the coroutine u inside an actor context, with the
\* next event of the current actor.
ActorJournalAppend(u, seq) ==
    /\ on[u] # NotStarted
    /\ own[u] # NoActor
    /\ AloneOn(u)
    /\ DiskBecomes(seq_actors_journal_append(
                       disk, get_current_actor(CURRENT_ACTOR_ID, on[u]),
                       Event_new(seq, EventKind(seq)[1], EventKind(seq)[2], Now)))
    /\ last' = Called("seq_actors_journal_append",
                      get_current_actor(CURRENT_ACTOR_ID, on[u]), seq, Ret)
    /\ UNCHANGED << actors, prev, FfiFrame >>

NextFfi ==
    \/ \E id \in ActorIds, channel_id \in Mailboxes : ActorSpawn(id, channel_id)
    \/ \E id \in ActorIds : ActorStop(id)
    \/ \E u \in ActorIds, seq \in Seqs : ActorJournalAppend(u, seq)
    \/ \E u \in ActorIds, t \in Threads : Start(u, t)
    \/ \E u \in ActorIds, id \in ActorIds : SetCurrentActor(u, id)
    \/ \E id \in ActorIds : Unregister(id)
    \/ \E id \in ActorIds : IsRunning(id)
    \/ \E id \in ActorIds : GetMailbox(id)
    \/ \E a \in ActorIds : ReadEvents(a)

SpecFfi == Init /\ [][NextFfi]_vars

(***************************************************************************)
(* The journal written by several execution units at once, each the only   *)
(* writer of one actor.  append and save_snapshot are sequences of file    *)
(* system calls, and the calls of one unit interleave with those of the    *)
(* others.  A unit reads its actor's files between its own writes.  The    *)
(* log of an actor may be damaged from outside.                            *)
(***************************************************************************)
\* What the journal's steps leave alone.
StepFrame ==
    << journaling_enabled, sequence, calls, saves_in_log, crash_vars,
       registry_vars, lock_vars, context_vars, view, fault_vars, codec_vars,
       instance_vars, race_vars >>

\* The writer of a goes from the step `from` to the step `to`, leaving the
\* disk as `after`.
Step(a, from, to, after) ==
    /\ jpc[a] = from
    /\ jpc' = [jpc EXCEPT ![a] = to]
    /\ DiskBecomes(after)
    /\ last' = Called(to, a, 0, Ret)
    /\ UNCHANGED << corrupted, StepFrame >>

\* append: self.ensure_dir(actor_id)?
AppendEnsureDir(a) ==
    /\ nwrites < MaxWrites
    /\ Len(appended[a]) <= MaxSeq
    /\ a \notin corrupted
    /\ nwrites' = nwrites + 1
    /\ Step(a, "idle", "append: dir", ensure_dir(disk, a))
    /\ UNCHANGED << appended, saved >>

\* append: OpenOptions::new().create(true).append(true).open(..)?
AppendOpen(a) ==
    /\ Step(a, "append: dir", "append: open", write_append(disk, journal_path(a), << >>))
    /\ UNCHANGED << nwrites, appended, saved >>

\* append: file.write_all(&len.to_le_bytes())?
AppendWriteLen(a) ==
    /\ Step(a, "append: open", "append: len",
            write_append(disk, journal_path(a),
                         U32LE(Len(Event_to_bytes(NextEvent(a))))))
    /\ UNCHANGED << nwrites, appended, saved >>

\* append: file.write_all(&data)?; Ok(())
AppendWriteData(a) ==
    /\ Step(a, "append: len", "idle",
            write_append(disk, journal_path(a), Event_to_bytes(NextEvent(a))))
    /\ appended' = [appended EXCEPT ![a] = Append(@, NextEvent(a))]
    /\ UNCHANGED << nwrites, saved >>

\* save_snapshot: self.ensure_dir(actor_id)?
SaveEnsureDir(a) ==
    /\ nwrites < MaxWrites
    /\ appended[a] # << >>
    /\ nwrites' = nwrites + 1
    /\ Step(a, "idle", "save: dir", ensure_dir(disk, a))
    /\ UNCHANGED << appended, saved >>

\* save_snapshot: File::create(..)?
SaveCreate(a) ==
    /\ Step(a, "save: dir", "save: create", write_create(disk, snapshot_path(a), << >>))
    /\ UNCHANGED << nwrites, appended, saved >>

\* save_snapshot: writer.write_all(&data)?; Ok(()) and the BufWriter dropped
SaveWrite(a) ==
    /\ Step(a, "save: create", "idle",
            write_append(disk, snapshot_path(a), Snapshot_to_bytes(NextSnapshot(a))))
    /\ saved' = [saved EXCEPT ![a] = Append(@, NextSnapshot(a))]
    /\ UNCHANGED << nwrites, appended >>

\* The unit of a, between its writes, calls read_events(a).
OwnReadEvents(a) == jpc[a] = "idle" /\ ReadEvents(a)

\* The unit of a, between its writes, calls load_snapshot(a).
OwnLoadSnapshot(a) == jpc[a] = "idle" /\ LoadSnapshot(a)

\* The log of a is damaged: bytes that are no record are put at its end.
Damage(a) ==
    /\ jpc[a] = "idle"
    /\ a \notin corrupted
    /\ appended[a] # << >>
    /\ corrupted' = corrupted \cup {a}
    /\ DiskBecomes(write_append(disk, journal_path(a), << 1, 0, 0, 0, 255 >>))
    /\ last' = Called("damage", a, 0, Ret)
    /\ UNCHANGED << jpc, nwrites, appended, saved, StepFrame >>

NextSteps ==
    \/ \E a \in ActorIds : AppendEnsureDir(a)
    \/ \E a \in ActorIds : AppendOpen(a)
    \/ \E a \in ActorIds : AppendWriteLen(a)
    \/ \E a \in ActorIds : AppendWriteData(a)
    \/ \E a \in ActorIds : SaveEnsureDir(a)
    \/ \E a \in ActorIds : SaveCreate(a)
    \/ \E a \in ActorIds : SaveWrite(a)
    \/ \E a \in ActorIds : OwnReadEvents(a)
    \/ \E a \in ActorIds : OwnLoadSnapshot(a)
    \/ \E a \in ActorIds : Damage(a)

SpecSteps == InitCrash /\ [][NextSteps]_vars

(***************************************************************************)
(* The journal read from storage that has gone wrong: a stored record or   *)
(* snapshot whose bytes were changed, a log cut short inside its last      *)
(* record, a file that may no longer be opened.  Each actor's files suffer *)
(* at most one of these, and are not written to afterwards.                *)
(***************************************************************************)
\* File::open and fs::read on a file the process may not read.
Journal_read_events_from(un, d, a) ==
    IF path_exists(d, journal_path(a)) /\ journal_path(a) \in un
    THEN IoErr("PermissionDenied")
    ELSE Journal_read_events(d, a)

Journal_load_snapshot_from(un, d, a) ==
    IF path_exists(d, snapshot_path(a)) /\ snapshot_path(a) \in un
    THEN SnapErr("PermissionDenied")
    ELSE Journal_load_snapshot(d, a)

recover_after(s, a, r, whole) ==
    IF ~s.ok THEN RecoverErr(s.err)
    ELSE IF ~r.ok THEN RecoverErr(r.err)
    ELSE whole

Runtime_recover_state_from(un, d, a) ==
    recover_after(Journal_load_snapshot_from(un, d, a), a,
                  Journal_read_events_from(un, d, a), Runtime_recover_state(d, a))

\* bs with its i-th byte replaced by b.
garbled(bs, i, b) == [bs EXCEPT ![i] = b]

\* The offsets, inside a record's data or a snapshot, of the bytes changed.
GarbleAt == 1..20

FaultFrame ==
    << journaling_enabled, sequence, nwrites, calls, appended, saved,
       saves_in_log, crash_vars, registry_vars, lock_vars, context_vars,
       view, step_vars, codec_vars, instance_vars, race_vars >>

\* Something happens to the files of a, leaving the disk as `after`.
Fault(a, kind, un, after) ==
    /\ fault[a] = "none"
    /\ fault' = [fault EXCEPT ![a] = kind]
    /\ unreadable' = un
    /\ DiskBecomes(after)
    /\ last' = Called(kind, a, 0, Ret)
    /\ UNCHANGED FaultFrame

\* A byte of the data of the last record of a's log is overwritten.
GarbleRecord(a, i) ==
    /\ appended[a] # << >>
    /\ i <= Len(Event_to_bytes(appended[a][Len(appended[a])]))
    /\ Fault(a, "garbled", unreadable,
             [disk EXCEPT !.files[journal_path(a)] =
                 garbled(@, Len(@) - Len(Event_to_bytes(appended[a][Len(appended[a])])) + i,
                         255)])

\* A byte of a's snapshot is overwritten.
GarbleSnapshot(a, i) ==
    /\ saved[a] # << >>
    /\ i <= Len(files[snapshot_path(a)])
    /\ Fault(a, "garbled", unreadable,
             [disk EXCEPT !.files[snapshot_path(a)] = garbled(@, i, 255)])

\* The log of a loses the last `cut` bytes of its last record's data.
CutRecord(a, cut) ==
    /\ appended[a] # << >>
    /\ cut < Len(Event_to_bytes(appended[a][Len(appended[a])]))
    /\ Fault(a, "cut", unreadable,
             [disk EXCEPT !.files[journal_path(a)] = SubSeq(@, 1, Len(@) - cut)])

\* The process loses the permission to read a file of a.
Deny(a, p) ==
    /\ p \in {journal_path(a), snapshot_path(a)}
    /\ path_exists(disk, p)
    /\ Fault(a, "denied", unreadable \cup {p}, disk)

\* The journal's writes, on files nothing has happened to.
SoundAppend(a) == fault[a] = "none" /\ JournalAppend(a)
SoundSave(a) == fault[a] = "none" /\ JournalSave(a)

FaultyRead(op, a, res) ==
    /\ last' = Called(op, a, 0, res)
    /\ UNCHANGED Reads

FaultyReadEvents(a) ==
    FaultyRead("read_events", a, Journal_read_events_from(unreadable, disk, a))
FaultyLoadSnapshot(a) ==
    FaultyRead("load_snapshot", a, Journal_load_snapshot_from(unreadable, disk, a))
FaultyRecoverState(a) ==
    FaultyRead("recover_state", a, Runtime_recover_state_from(unreadable, disk, a))

NextFaults ==
    \/ \E a \in ActorIds : SoundAppend(a)
    \/ \E a \in ActorIds : SoundSave(a)
    \/ \E a \in ActorIds, i \in GarbleAt : GarbleRecord(a, i)
    \/ \E a \in ActorIds, i \in GarbleAt : GarbleSnapshot(a, i)
    \/ \E a \in ActorIds, cut \in {1, 9} : CutRecord(a, cut)
    \/ \E a \in ActorIds, p \in DOMAIN files : Deny(a, p)
    \/ \E a \in ActorIds : FaultyReadEvents(a)
    \/ \E a \in ActorIds : FaultyLoadSnapshot(a)
    \/ \E a \in ActorIds : FaultyRecoverState(a)

SpecFaults == InitCrash /\ [][NextFaults]_vars

(***************************************************************************)
(* The value codec on its own: a TypedValue is serialized with to_bytes    *)
(* and the bytes are given to from_bytes.  The values are the leaves, the  *)
(* maps and variants over leaves, and the maps and variants over those.    *)
(***************************************************************************)
\* f64 bit patterns, little-endian: 0.0, 1.5, +infinity and a quiet NaN.
Floats ==
    { << 0, 0, 0, 0, 0, 0, 0, 0 >>, << 0, 0, 0, 0, 0, 0, 248, 63 >>,
      << 0, 0, 0, 0, 0, 0, 240, 127 >>, << 0, 0, 0, 0, 0, 0, 248, 127 >> }

Leaves ==
    {TInt(n) : n \in {-1, 0, 300}} \cup {TFloat(b) : b \in Floats}
        \cup {TBool(b) : b \in BOOLEAN} \cup {TString(t) : t \in {<< >>, << 120 >>}}

MapKeys == {KInt(-1), KInt(7), KBool(TRUE), KString(<< 120 >>)}

\* The maps of one entry and the variants of at most two fields over vs,
\* and the maps of two entries whose second is {"x": 10}'s like.
Nested(vs) ==
    {TMap(BTreeCollect(<< >>, << << k, v >> >>)) : k \in MapKeys, v \in vs}
        \cup {TMap(BTreeCollect(<< >>, << << KString(<< 120 >>), TInt(10) >>, << k, v >> >>)) :
                 k \in MapKeys, v \in vs}
        \cup {TVariant(<< 83 >>, << >>)}
        \cup {TVariant(<< 83 >>, << v >>) : v \in vs}

Pairs == {TVariant(<< 83 >>, << v, w >>) : v \in Leaves, w \in Leaves}

TypedValues == Leaves \cup Nested(Leaves) \cup Pairs \cup Nested(Nested(Leaves))

CodecFrame ==
    << journaling_enabled, dirs, files, sequence, nwrites, last, calls, appended,
       saved, saves_in_log, crash_vars, registry_vars, lock_vars, context_vars,
       view, step_vars, fault_vars, instance_vars, race_vars >>

\* value.to_bytes().unwrap()
ToBytes(v) ==
    /\ wire = << >> \/ parsed # NotParsed
    /\ value' = v
    /\ wire' = TypedValue_to_bytes(v)
    /\ parsed' = NotParsed
    /\ UNCHANGED CodecFrame

\* TypedValue::from_bytes(&bytes)
FromBytes ==
    /\ wire # << >>
    /\ parsed = NotParsed
    /\ parsed' = TypedValue_from_bytes(wire)
    /\ UNCHANGED << value, wire, CodecFrame >>

NextCodec ==
    \/ \E v \in TypedValues : ToBytes(v)
    \/ FromBytes

SpecCodec == Init /\ [][NextCodec]_vars

(***************************************************************************)
(* The Actor struct on its own: instances are made with Actor::new or      *)
(* Actor::with_id and asked for sequence numbers.                          *)
(***************************************************************************)
InstanceFrame ==
    << journaling_enabled, dirs, files, nwrites, calls, appended, saved,
       saves_in_log, crash_vars, registry_vars, lock_vars, context_vars,
       view, step_vars, fault_vars, codec_vars, race_vars >>

\* Actor::new(behavior): a new instance takes a's place.
ActorNew(a) ==
    /\ sequence' = [sequence EXCEPT ![a] = Actor_new_sequence]
    /\ handed' = [handed EXCEPT ![a] = << >>]
    /\ last' = Called("new", a, 0, Ret)
    /\ UNCHANGED InstanceFrame

\* Actor::with_id(id, behavior): a new instance takes a's place.
ActorWithId(a) ==
    /\ sequence' = [sequence EXCEPT ![a] = Actor_with_id_sequence]
    /\ handed' = [handed EXCEPT ![a] = << >>]
    /\ last' = Called("with_id", a, 0, Ret)
    /\ UNCHANGED InstanceFrame

\* actor.next_sequence()
NextSequence(a) ==
    /\ sequence[a] <= MaxSeq + 3
    /\ sequence' = [sequence EXCEPT ![a] = next_sequence(@).sequence]
    /\ handed' = [handed EXCEPT ![a] = Append(@, next_sequence(sequence[a]).ret)]
    /\ last' = Called("next_sequence", a, next_sequence(sequence[a]).ret, Ret)
    /\ UNCHANGED InstanceFrame

NextInstance ==
    \/ \E a \in ActorIds : ActorNew(a)
    \/ \E a \in ActorIds : ActorWithId(a)
    \/ \E a \in ActorIds : NextSequence(a)

SpecInstance == Init /\ [][NextInstance]_vars

(***************************************************************************)
(* Journal::append called by several execution units at once, for any      *)
(* actor, with nothing putting the calls in order: each call is its        *)
(* sequence of file system calls, and the calls of the units interleave.   *)
(* The file is opened with append(true): each write_all puts its bytes at  *)
(* the end the file has at that moment.                                    *)
(***************************************************************************)
RaceFrame ==
    << journaling_enabled, sequence, calls, saved, saves_in_log, crash_vars,
       registry_vars, lock_vars, context_vars, view, step_vars, fault_vars,
       codec_vars, instance_vars >>

\* The unit u does the step `to` of its append, leaving the disk as `after`.
RaceStep(u, to, after) ==
    /\ DiskBecomes(after)
    /\ last' = Called(to, wjob[u].actor, u, Ret)
    /\ UNCHANGED << nwrites, RaceFrame >>

\* append: self.ensure_dir(actor_id)?, for the event numbered seq.
RaceEnsureDir(u, a, seq) ==
    /\ wjob[u] = NoJob
    /\ nwrites < MaxWrites
    /\ seq = nwrites
    /\ nwrites' = nwrites + 1
    /\ wjob' = [wjob EXCEPT ![u] =
                   [step |-> "dir", actor |-> a,
                    data |-> Event_to_bytes(
                        Event_new(seq, EventKind(seq)[1], EventKind(seq)[2], Now))]]
    /\ DiskBecomes(ensure_dir(disk, a))
    /\ last' = Called("append: dir", a, u, Ret)
    /\ UNCHANGED << appended, RaceFrame >>

\* append: OpenOptions::new().create(true).append(true).open(..)?
RaceOpen(u) ==
    /\ wjob[u].step = "dir"
    /\ wjob' = [wjob EXCEPT ![u].step = "open"]
    /\ RaceStep(u, "append: open",
                write_append(disk, journal_path(wjob[u].actor), << >>))
    /\ UNCHANGED appended

\* append: file.write_all(&len.to_le_bytes())?
RaceWriteLen(u) ==
    /\ wjob[u].step = "open"
    /\ wjob' = [wjob EXCEPT ![u].step = "len"]
    /\ RaceStep(u, "append: len",
                write_append(disk, journal_path(wjob[u].actor),
                             U32LE(Len(wjob[u].data))))
    /\ UNCHANGED appended

\* append: file.write_all(&data)?; Ok(())
RaceWriteData(u) ==
    /\ wjob[u].step = "len"
    /\ wjob' = [wjob EXCEPT ![u] = NoJob]
    /\ RaceStep(u, "append",
                write_append(disk, journal_path(wjob[u].actor), wjob[u].data))
    /\ appended' = [appended EXCEPT
                       ![wjob[u].actor] = Append(@, Event_from_bytes(wjob[u].data).val)]

NextRace ==
    \/ \E u \in Writers, a \in ActorIds, seq \in Seqs : RaceEnsureDir(u, a, seq)
    \/ \E u \in Writers : RaceOpen(u)
    \/ \E u \in Writers : RaceWriteLen(u)
    \/ \E u \in Writers : RaceWriteData(u)
    \/ \E a \in ActorIds : ReadEvents(a)

SpecRace == InitCrash /\ [][NextRace]_vars

(***************************************************************************)
(* The properties.                                                         *)
(***************************************************************************)
\* The events have the seqs 0, 1, 2, ... in this order.
Contiguous(events) == \A i \in 1..Len(events) : events[i].seq = i - 1

\* a has had no append and no snapshot written.
Untouched(a) == a \in ActorIds /\ appended[a] = << >> /\ saved[a] = << >>

\* C1: after n appends for an actor with events of seq 0..n-1, read_events
\* returns exactly those n events, in append order, each with the same seq,
\* event_type, payload and ts.
C1_AppendThenRead ==
    (last.op = "read_events" /\ Contiguous(appended[last.actor]))
        => last.res = IoOk(appended[last.actor])

C1_Witness ==
    /\ last.op = "read_events"
    /\ Len(appended[last.actor]) >= 2
    /\ Contiguous(appended[last.actor])
    /\ last.res.ok
    /\ Len(last.res.events) = Len(appended[last.actor])

\* An actor's transition function, here of an actor that keeps the last
\* payload of each event type, and the state a new actor starts from.
transition(state, event) ==
    TMap(BTreeInsert(state.items, KString(event.event_type), event.payload))

InitialState == EmptyMap

RECURSIVE ApplyAll(_, _)
ApplyAll(state, events) ==
    IF events = << >> THEN state
    ELSE ApplyAll(transition(state, events[1]), Tail(events))

\* The events of `events` applied to `state` in seq order, from seq q up to s.
RECURSIVE Replay(_, _, _, _)
Replay(state, events, q, s) ==
    IF q > s THEN state
    ELSE Replay(ApplyAll(state, SelectSeq(events, LAMBDA e : e.seq = q)),
                events, q + 1, s)

\* The persisted events of a that its snapshot does not cover, and the state
\* their replay starts from.
Uncovered(a) ==
    IF LastSaved(a).some
    THEN SelectSeq(appended[a], LAMBDA e : e.seq > LastSaved(a).seq)
    ELSE appended[a]

BaseState(a) == IF LastSaved(a).some THEN LastSaved(a).state ELSE InitialState

\* C2: when recover_state returns a state with sequence number s for an actor
\* that has persisted events no snapshot covers, the state is the result of
\* applying those events with seq <= s, in seq order, through the transition
\* function to the snapshot state (the initial state without a snapshot); it
\* is never the unmodified snapshot state with a later sequence number.
C2_RecoveryReplays ==
    (/\ last.op = "recover_state"
     /\ last.res.ok
     /\ last.res.some
     /\ Uncovered(last.actor) # << >>)
        => /\ last.res.state =
                Replay(BaseState(last.actor), Uncovered(last.actor), 0, last.res.seq)
           /\ LastSaved(last.actor).some
                => ~(/\ last.res.state = LastSaved(last.actor).state
                     /\ last.res.seq > LastSaved(last.actor).seq)

\* The journal holds no event after a's snapshot.
NothingAfterSnapshot(a) ==
    /\ LastSaved(a).some
    /\ \A i \in 1..Len(appended[a]) : appended[a][i].seq <= LastSaved(a).seq

\* C3: with a snapshot of seq s and no event of seq > s in the journal,
\* whatever events of seq <= s it holds, recover_state returns exactly the
\* snapshot's state with sequence number s.
C3_SnapshotOnlyRecovery ==
    (last.op = "recover_state" /\ NothingAfterSnapshot(last.actor))
        => last.res = Recovered(LastSaved(last.actor).state, LastSaved(last.actor).seq)

C3_Witness ==
    /\ last.op = "recover_state"
    /\ NothingAfterSnapshot(last.actor)
    /\ appended[last.actor] # << >>
    /\ last.res.some
    /\ last.res.seq = LastSaved(last.actor).seq

\* C4: recover_state yields "no prior state" exactly when the actor has
\* neither a stored snapshot nor a stored event; once an event has been
\* persisted it returns a result.
C4_NoPriorStateIff ==
    last.op = "recover_state"
        => /\ last.res.ok
           /\ last.res.some <=> ~Untouched(last.actor)

C4_Witness ==
    /\ last.op = "recover_state"
    /\ appended[last.actor] # << >>
    /\ saved[last.actor] = << >>
    /\ last.res.some

\* C5: read_events_after(actor, k) returns exactly the stored events whose
\* seq is greater than k, in their stored order, for every k from below the
\* lowest stored seq to above the highest.
C5_EventsAfter ==
    last.op = "read_events_after"
        => last.res = IoOk(SelectSeq(appended[last.actor], LAMBDA e : e.seq > last.k))

\* k lies strictly between two stored seqs and equals none.
C5_Witness ==
    /\ last.op = "read_events_after"
    /\ \E i, j \in 1..Len(appended[last.actor]) :
          appended[last.actor][i].seq < last.k /\ appended[last.actor][j].seq > last.k
    /\ \A i \in 1..Len(appended[last.actor]) : appended[last.actor][i].seq # last.k
    /\ last.res.ok
    /\ last.res.events # << >>
    /\ Len(last.res.events) < Len(appended[last.actor])

\* C6: after save_snapshot(actor, S), load_snapshot(actor) returns a snapshot
\* with exactly S's seq and state, whatever events were appended before or
\* after and whatever snapshot was there before: the latest save wins.
C6_SnapshotRoundTrip ==
    (last.op = "load_snapshot" /\ saved[last.actor] # << >>)
        => /\ last.res.ok
           /\ last.res.snap.some
           /\ last.res.snap.seq = LastSaved(last.actor).seq
           /\ last.res.snap.state = LastSaved(last.actor).state

\* A second, different snapshot replaced the first, with events in the log.
C6_Witness ==
    /\ last.op = "load_snapshot"
    /\ Len(saved[last.actor]) >= 2
    /\ saved[last.actor][1] # saved[last.actor][2]
    /\ appended[last.actor] # << >>
    /\ last.res.snap.some
    /\ last.res.snap.seq = LastSaved(last.actor).seq

\* C7: for an actor with no append and no save_snapshot ever performed,
\* read_events returns the empty sequence, load_snapshot none and exists
\* false, without an error, whatever was done to other actors.
C7_UntouchedActor ==
    Untouched(last.actor)
        => /\ last.op = "read_events" => last.res = IoOk(<< >>)
           /\ last.op = "load_snapshot" => last.res = SnapOk(NoSnapshot)
           /\ last.op = "exists" => (last.res.ok /\ ~last.res.value)

C7_Witness ==
    /\ last.op = "exists"
    /\ Untouched(last.actor)
    /\ \E b \in ActorIds : appended[b] # << >> /\ saved[b] # << >>
    /\ ~last.res.value

\* C8: in every reachable state the events stored in an actor's journal,
\* read in file order, have the seqs 0, 1, 2, ...: increasing from 0 with no
\* gap and no duplicate.
C8_SeqsFromZeroNoGaps ==
    \A a \in ActorIds :
        LET r == Journal_read_events(disk, a) IN r.ok /\ Contiguous(r.events)

\* C9 as claimed: a stored snapshot's seq is at most the highest seq of any
\* event ever appended for the actor.
C9_SnapshotWithinLog ==
    \A a \in ActorIds :
        LET r == Journal_load_snapshot(disk, a) IN
        r.snap.some => r.snap.seq <= MaxSeqOf(appended[a])

\* C9 as amended: a stored snapshot's seq is at most the highest seq of any
\* event ever appended for the actor, provided every save_snapshot for the
\* actor was given a seq that an already appended event had reached.
C9_SnapshotWithinLogWhenSavedSo ==
    \A a \in ActorIds :
        LET r == Journal_load_snapshot(disk, a) IN
        (saves_in_log[a] /\ r.snap.some) => r.snap.seq <= MaxSeqOf(appended[a])

C9_Witness ==
    /\ last.op = "load_snapshot"
    /\ saves_in_log[last.actor]
    /\ saved[last.actor] # << >>
    /\ last.res.snap.some
    /\ last.res.snap.seq < MaxSeqOf(appended[last.actor])

\* C10: with journaling disabled every persist_event and save_snapshot
\* returns success and leaves storage unchanged: no events, no snapshot,
\* exists false, and recover_state yields no prior state.
C10_DisabledJournalingIsNoOp ==
    ~journaling_enabled
        => /\ dirs = {}
           /\ DOMAIN files = {}
           /\ last.op \in {"persist_event", "save_snapshot"} => last.res.ok
           /\ last.op = "read_events" => last.res = IoOk(<< >>)
           /\ last.op = "load_snapshot" => last.res = SnapOk(NoSnapshot)
           /\ last.op = "exists" => ~last.res.value
           /\ last.op = "recover_state" => last.res = NoState

C10_Witness ==
    /\ ~journaling_enabled
    /\ last.op = "recover_state"
    /\ << "persist_event", last.actor >> \in calls
    /\ << "save_snapshot", last.actor >> \in calls
    /\ ~last.res.some


\* Every event of acked is among the events read, in the same order.
Holds(events, acked) ==
    /\ Len(events) >= Len(acked)
    /\ \A i \in 1..Len(acked) : events[i] = acked[i]

\* C11: when a process crash cuts an append short, inside the length prefix
\* or inside the payload, so that the log is k whole records followed by a
\* torn one, read_events succeeds and returns exactly the k whole records in
\* order.
C11_TornTailReadsClean ==
    (last.op = "read_events" /\ shape[last.actor] = "torn")
        => last.res = IoOk(appended[last.actor])

\* C12: an event whose append has returned success is returned by every later
\* read_events for its actor, a read after a process or machine crash and
\* restart included (here: for an actor none of whose appends was cut short).
C12_AppendedIsDurable ==
    (/\ last.op = "read_events"
     /\ appended[last.actor] # << >>
     /\ << "append_interrupted", last.actor >> \notin calls)
        => (last.res.ok /\ Holds(last.res.events, appended[last.actor]))

\* C13: when a crash cuts short a save_snapshot for an actor that already has
\* a snapshot, a later load_snapshot returns the old snapshot or the new one
\* in full, never an error, an empty file or a partly written snapshot.
C13_SnapshotReplacementAtomic ==
    (/\ last.op = "load_snapshot"
     /\ saved[last.actor] # << >>
     /\ interrupted[last.actor].some)
        => (/\ last.res.ok
            /\ last.res.snap \in {LastSaved(last.actor), interrupted[last.actor]})

\* id has the same entry, or none, in the registries r and q.
SameEntry(r, q, id) ==
    /\ id \in DOMAIN r <=> id \in DOMAIN q
    /\ id \in DOMAIN r => r[id] = q[id]

\* C14: after register(id, mailbox, behavior), is_running(id) is true and
\* get_mailbox(id) returns that mailbox, whether id was absent, running or
\* stopped before: an entry already there is replaced.
C14_RegisterMakesRunning ==
    last.op = "register"
        => (/\ Registry_is_running(actors, last.actor)
            /\ Registry_get_mailbox(actors, last.actor) = SomeMailbox(last.k))

C14_Witness ==
    /\ last.op = "register"
    /\ last.actor \in DOMAIN prev
    /\ ~prev[last.actor].running
    /\ prev[last.actor].mailbox # last.k
    /\ actors[last.actor] = ActorEntry(last.k, BehaviorOf(last.k), TRUE)

\* C15: mark_stopped(id) changes only the running flag of id's entry:
\* is_running(id) is false afterwards and get_mailbox(id) returns the mailbox
\* it returned before; with no entry for id none is created; the entries of
\* the other ids are unchanged.
C15_MarkStoppedOnlyFlag ==
    last.op = "mark_stopped"
        => (/\ ~Registry_is_running(actors, last.actor)
            /\ Registry_get_mailbox(actors, last.actor)
                   = Registry_get_mailbox(prev, last.actor)
            /\ last.actor \in DOMAIN actors <=> last.actor \in DOMAIN prev
            /\ last.actor \in DOMAIN prev
                   => actors[last.actor]
                          = [prev[last.actor] EXCEPT !.running = FALSE]
            /\ \A o \in ActorIds \ {last.actor} : SameEntry(actors, prev, o))

C15_Witness ==
    /\ last.op = "mark_stopped"
    /\ Registry_is_running(prev, last.actor)
    /\ ~Registry_is_running(actors, last.actor)
    /\ Registry_get_mailbox(actors, last.actor).some
    /\ \E o \in ActorIds \ {last.actor} : Registry_is_running(actors, o)

\* C16: after unregister(id), from a running, stopped or absent id,
\* get_mailbox(id) is none and is_running(id) is false until the next
\* register(id); and is_running(id) is true exactly when id has an entry
\* whose running flag is set.
C16_UnregisterRemoves ==
    /\ [](/\ last.op = "unregister"
               => (/\ Registry_get_mailbox(actors, last.actor) = NoMailbox
                   /\ ~Registry_is_running(actors, last.actor))
          /\ last.op = "is_running"
               => (last.res.value
                       <=> \E q \in DOMAIN actors :
                               q = last.actor /\ actors[q].running))
    /\ [][\A id \in ActorIds :
            (Registry_get_mailbox(actors, id) = NoMailbox
                 /\ ~(last'.op = "register" /\ last'.actor = id))
                => (/\ Registry_get_mailbox(actors', id) = NoMailbox
                    /\ ~Registry_is_running(actors', id))]_vars

C16_Witness ==
    /\ last.op = "unregister"
    /\ Registry_is_running(prev, last.actor)
    /\ last.actor \notin DOMAIN actors

\* C17: an id goes from not running (absent or stopped) to running only by a
\* register(id) step: mark_stopped, unregister, get_mailbox and is_running
\* never make is_running(id) true, and no call on another id does.
C17_OnlyRegisterStarts ==
    [][\A id \in ActorIds :
            (~Registry_is_running(actors, id) /\ Registry_is_running(actors', id))
                => (last'.op = "register" /\ last'.actor = id)]_vars

C17_Witness ==
    /\ last.op = "register"
    /\ last.actor \notin DOMAIN prev
    /\ Registry_is_running(actors, last.actor)
    /\ \E o \in ActorIds \ {last.actor} : o \in DOMAIN actors /\ ~actors[o].running

\* The units inside a writing call, and those inside a reading call.
WritersInside == {u \in Units : pc[u].op \in WriteOps}
ReadersInside == {u \in Units : pc[u].op \in ReadOps}

\* C18: under any interleaving of registry calls from several units each
\* call takes effect atomically under the one reader/writer lock: no two
\* writers, and no writer and reader, are inside the registry at once; every
\* read returns the value a whole sequence of earlier writes left; and with
\* no writer inside, the map is the one the writes give in the sequential
\* order in which they took the lock.
C18_CallsAreAtomic ==
    /\ [](/\ Cardinality(WritersInside) <= 1
          /\ WritersInside # {} => ReadersInside = {}
          /\ (WritersInside = {} /\ ~lock.poisoned) => actors = linear)
    /\ [][\A u \in Units :
            (pc[u].op \in ReadOps /\ pc'[u] = Idle)
                => last'.res = Registry_return(linear, pc[u])]_vars

C18_Witness ==
    /\ Cardinality(ReadersInside) >= 2
    /\ last.op = "is_running"
    /\ last.res.ok
    /\ last.res.value
    /\ Cardinality(DOMAIN actors) = 2
    /\ \E id \in DOMAIN actors : ~actors[id].running

\* C19: once a writer has terminated abnormally while holding the lock,
\* every later registry call from any unit fails fast: none returns a value,
\* none stays inside or holds the lock, and none reads or writes the map,
\* which may be half updated.
C19_PoisonedLockFailsFast ==
    /\ [](lock.poisoned
            => (/\ ~last.res.ok
                /\ \A u \in Units : pc[u] = Idle
                /\ lock.writer = 0 /\ lock.readers = {}))
    /\ [][lock.poisoned
            => (/\ actors' = actors
                /\ lock' = lock
                /\ last'.res = Panicked)]_vars

C19_Witness ==
    /\ lock.poisoned
    /\ last.op = "get_mailbox"
    /\ last.res = Panicked
    /\ actors # linear

\* C20: the current-actor slot is private to one running actor unit: once
\* unit U has called set_current_actor(a) no other unit running at the same
\* time, thread or coroutine on the same thread, obtains a from
\* get_current_actor, and another unit's set or clear never changes what U
\* reads: each unit reads what it last set, or none.
C20_SlotIsPrivate ==
    last.op = "get_current_actor" => last.res.value = own[last.actor]

C22_SelfOutsideContextIsFatal ==
    (last.op = "seq_actors_self" /\ own[last.actor] = NoActor) => ~last.res.ok

\* C23: independently constructed runtimes have independent registries:
\* what is_running and get_mailbox return through one ActorRuntime is what
\* that runtime's own register, stop and unregister calls made it, whatever
\* was done through another ActorRuntime.
C23_RuntimesHaveOwnRegistries ==
    /\ last.op = "is_running"
           => last.res.value = Registry_is_running(view[last.k], last.actor)
    /\ last.op = "get_mailbox"
           => last.res.value = Registry_get_mailbox(view[last.k], last.actor)

\* C24: actor-stop (seq_actors_stop) on a running actor moves it from
\* Running to Stopped: after the call is_running(id) is false while
\* get_mailbox(id) still resolves, until unregister.
C24_StopMovesToStopped ==
    (last.op = "seq_actors_stop" /\ Registry_is_running(prev, last.actor))
        => (/\ ~Registry_is_running(actors, last.actor)
            /\ Registry_get_mailbox(actors, last.actor).some)

\* The log read back ends with the event of this seq.
EndsWith(r, seq) ==
    /\ r.ok
    /\ r.events # << >>
    /\ r.events[Len(r.events)]
           = Event_new(seq, EventKind(seq)[1], EventKind(seq)[2], Now)

\* C25: journal-append (seq_actors_journal_append) called inside an actor
\* context persists the event to the current actor's journal: when it
\* returns, read_events for the current actor has that event as its last
\* element.
C25_JournalAppendPersists ==
    last.op = "seq_actors_journal_append"
        => EndsWith(Journal_read_events(disk, last.actor), last.k)

\* The disk after the step.
disk_after == [dirs |-> dirs', files |-> files']

\* The calls that only read the journal.
JournalReads ==
    {"read_events", "read_events_after", "load_snapshot", "exists", "recover_state"}

\* C26: in every reachable state exists(actor) is true exactly when an append
\* or a save_snapshot has been performed for the actor; read_events,
\* read_events_after, load_snapshot, exists and recover_state never create
\* the directory, so they never turn exists from false to true.
C26_ExistsIffWritten ==
    /\ [](/\ \A a \in ActorIds :
                Journal_exists(disk, a)
                    <=> (appended[a] # << >> \/ saved[a] # << >>)
          /\ last.op = "exists"
                => (last.res.value
                        <=> (appended[last.actor] # << >>
                                \/ saved[last.actor] # << >>)))
    /\ [][last'.op \in JournalReads
            => \A a \in ActorIds :
                   Journal_exists(disk_after, a) <=> Journal_exists(disk, a)]_vars

C26_Witness ==
    /\ last.op = "exists"
    /\ last.res.value
    /\ appended[last.actor] = << >>
    /\ saved[last.actor] # << >>
    /\ \E a \in ActorIds : Untouched(a) /\ ~Journal_exists(disk, a)

\* The events stored for a, as read_events returns them.
StoredEvents(d, a) == Journal_read_events(d, a).events

\* The bytes of a's log file (none when there is no file).
LogBytes(d, a) ==
    IF path_exists(d, journal_path(a)) THEN d.files[journal_path(a)] ELSE << >>

\* The sequence s is a prefix of the sequence t.
IsPrefix(s, t) == Len(s) <= Len(t) /\ SubSeq(t, 1, Len(s)) = s

\* C27: an actor's event log only grows: over every call of the Journal or
\* the Runtime the events stored before it are a prefix of the events stored
\* after it, no stored event being rewritten, reordered or removed, and
\* save_snapshot leaves the log as it is.
C27_LogOnlyGrows ==
    [][\A a \in ActorIds :
          /\ IsPrefix(LogBytes(disk, a), LogBytes(disk_after, a))
          /\ IsPrefix(StoredEvents(disk, a), StoredEvents(disk_after, a))
          /\ last'.op # "persist_event"
                => StoredEvents(disk_after, a) = StoredEvents(disk, a)]_vars

C27_Witness ==
    /\ last.op = "save_snapshot"
    /\ journaling_enabled
    /\ Len(StoredEvents(disk, last.actor)) >= 2
    /\ StoredEvents(disk, last.actor) = appended[last.actor]
    /\ saved[last.actor] # << >>

\* C28: when several units append and snapshot at once, each for its own
\* actor, the calls do not interfere: under every interleaving read_events
\* of an actor returns exactly the events appended for it, in its own append
\* order, and load_snapshot its own last snapshot; and a damaged log of one
\* actor makes no call on another actor fail.
C28_ActorsDoNotInterfere ==
    /\ (last.op = "read_events" /\ last.actor \notin corrupted)
           => last.res = IoOk(appended[last.actor])
    /\ last.op = "load_snapshot" => last.res = SnapOk(LastSaved(last.actor))

C28_Witness ==
    /\ last.op = "read_events"
    /\ last.actor \notin corrupted
    /\ Len(last.res.events) >= 1
    /\ \E b \in ActorIds \ {last.actor} :
          /\ b \in corrupted
          /\ jpc[b] = "save: create"

\* C29: read_events, load_snapshot and recover_state report stored bytes
\* that fail to decode with an error kind of its own: they fail with
\* InvalidData exactly when the bytes of a record or snapshot were changed,
\* and with another kind when the file is cut short or may not be read.
FailedRead ==
    /\ last.op \in {"read_events", "load_snapshot", "recover_state"}
    /\ ~last.res.ok

C29_DecodeFailureIsDistinct ==
    FailedRead =>
        /\ last.res.err = "InvalidData" <=> fault[last.actor] = "garbled"
        /\ last.res.err = "UnexpectedEof" <=> fault[last.actor] = "cut"
        /\ last.res.err = "PermissionDenied" <=> fault[last.actor] = "denied"

C29_Witness ==
    /\ FailedRead
    /\ last.op = "recover_state"
    /\ last.res.err = "InvalidData"
    /\ saved[last.actor] # << >>
    /\ Journal_load_snapshot(disk, last.actor).ok
    /\ \E b \in ActorIds : fault[b] = "cut"

\* v holds a NaN somewhere.
RECURSIVE HoldsNaN(_)
HoldsNaN(v) ==
    CASE v.tag = "Float" -> f64_is_nan(v.s)
      [] v.tag = "Map" -> \E i \in 1..Len(v.items) : HoldsNaN(v.items[i][2])
      [] v.tag = "Variant" -> \E i \in 1..Len(v.items) : HoldsNaN(v.items[i])
      [] OTHER -> FALSE

\* C30 as stated: for every TypedValue v of the bounded set (Int, Float,
\* Bool, String, Map with Int/Bool/String keys, Variant, nested),
\* from_bytes(to_bytes(v)) succeeds and equals v.
C30_RoundTripEquals ==
    parsed # NotParsed => parsed.ok /\ TypedValue_eq(parsed.val, value)

\* C30, amended: from_bytes(to_bytes(v)) succeeds for every v, leaves no
\* bytes over and gives back the same variants, integers, strings, keys and
\* float bits as v; it equals v under == exactly when v holds no NaN.
C30_RoundTripKeepsBits ==
    parsed # NotParsed =>
        /\ parsed.ok
        /\ parsed.rest = << >>
        /\ parsed.val = value
        /\ TypedValue_eq(parsed.val, value) <=> ~HoldsNaN(value)

C30_Witness ==
    /\ parsed # NotParsed
    /\ parsed.ok
    /\ value.tag = "Map"
    /\ Len(value.items) = 2
    /\ \E i \in 1..2 : value.items[i][2].tag = "Variant" /\ HoldsNaN(value.items[i][2])

\* C31: Actor.sequence starts at 0 and the k-th next_sequence call on an
\* actor returns k-1, the counter standing at the number of calls made: the
\* values handed out are 0, 1, 2, ... with no gap and no repeat.
C31_SequenceCountsCalls ==
    \A a \in ActorIds :
        /\ sequence[a] = Len(handed[a])
        /\ \A k \in 1..Len(handed[a]) : handed[a][k] = k - 1

C31_Witness ==
    /\ last.op = "next_sequence"
    /\ last.k = 2
    /\ Len(handed[last.actor]) = 3
    /\ \E b \in ActorIds : handed[b] = << 0 >>

\* The highest seq persisted for a: the greatest of the seqs of the events
\* in its log and of its snapshot's seq, -1 when it has neither.
HighestPersisted(d, a) ==
    IF Journal_load_snapshot(d, a).snap.some
          /\ Journal_load_snapshot(d, a).snap.seq > MaxSeqOf(StoredEvents(d, a))
    THEN Journal_load_snapshot(d, a).snap.seq
    ELSE MaxSeqOf(StoredEvents(d, a))

\* C32: whenever recover_state returns a result, its sequence number is the
\* highest seq persisted for the actor: the maximum of the snapshot's seq,
\* if there is a snapshot, and of the seqs of all the events in the journal.
C32_RecoveredSeqIsHighest ==
    (last.op = "recover_state" /\ last.res.ok /\ last.res.some)
        => last.res.seq = HighestPersisted(disk, last.actor)

\* C33: numbering continues across a restart: the first event an actor
\* appends after it was recreated with Actor::with_id and recovered with
\* recover_state has a seq one greater than the highest seq in its journal.
C33_NumberingContinuesAfterRestart ==
    [][\A a \in ActorIds :
          (/\ last.op = "recover_state"
           /\ last.actor = a
           /\ last.res.ok
           /\ StoredEvents(disk, a) # << >>
           /\ journaling_enabled
           /\ last'.op = "persist_event"
           /\ last'.actor = a)
              => last'.k = MaxSeqOf(StoredEvents(disk, a)) + 1]_vars

\* The events of a sequence, as a set.
EventsOf(events) == {events[i] : i \in 1..Len(events)}

\* C34: when two execution units call Journal::append for the same actor at
\* once, the log still holds two whole records: once both calls have
\* returned, read_events succeeds and returns both events.
C34_ConcurrentAppendsStayIntact ==
    (/\ last.op = "read_events"
     /\ \A u \in Writers : wjob[u] = NoJob)
        => /\ last.res.ok
           /\ Len(last.res.events) = Len(appended[last.actor])
           /\ EventsOf(last.res.events) = EventsOf(appended[last.actor])

=============================================================================
